---- MODULE Spec2Model ----
(***************************************************************************)
(* A model of cloudflare-ddns: the retry driver (internal/retry), the      *)
(* record reconciler (upsertRecord / cfAPI) and the zone / subdomain       *)
(* fan-out (processZone, main).                                            *)
(***************************************************************************)
EXTENDS Integers, Sequences, FiniteSets, TLC

(***************************************************************************)
(* Bounds of the model.                                                    *)
(***************************************************************************)
\* largest retry.Config.MaxRetries explored (the smallest is -1)
MaxRetriesBound == 2
\* largest InitialWait / MaxWait explored, in abstract duration units
MaxWaitBound == 2
\* width in bits of time.Duration in the model (an int64 in Go): durations are
\* scaled so that the products of retry.go:48 leave the range within the model
DurationBits == 7
\* largest attempt whose delay is computed, and largest wait of the policies
\* of, the delay computation taken alone
MaxAttemptBound == 7
MaxBackoffWait == 4
\* longest error message classified, in phrases
MaxMsgLen == 2

\* largest number of records the provider holds at the start of an upsert test
MaxRemote == 2

\* largest number of zones in a configuration
MaxZones == 2
\* largest number of subdomain goroutines in a run
MaxWorkers == 2
\* largest concurrency_limit configured
MaxLimit == 2
\* longest subdomain name of the configurations that vary the name alone
MaxNameLen == 2

(***************************************************************************)
(* Program constants.                                                      *)
(***************************************************************************)
\* retry.DefaultConfig().MaxRetries
DefaultMaxRetries == 5
\* main.go:35
DefaultTTLFallback == 300
\* main.go:39
DefaultConcurrencyLimit == 10
\* part_004:200
MinTTL == 60
\* part_004:200
MaxTTL == 86400

VARIABLES
    \* ---- retry.WithBackoff (one invocation) ----
    config,      \* retry.Config: [MaxRetries, InitialWait, MaxWait]
    rpc,         \* position of the WithBackoff goroutine
    attempt,     \* loop variable of WithBackoff
    lastErr,     \* lastErr of WithBackoff (NoErr = nil)
    backoff,     \* the duration handed to time.After
    timerFired,  \* the channel of time.After(backoff) is ready
    cancelled,   \* ctx.Done() is closed (ctx.Err() != nil)
    fnLog,       \* what each invocation of fn returned so far, in order
    result,      \* what WithBackoff returned
    \* ---- ip.GetWithRetry (one invocation) ----
    isIPv6,      \* the isIPv6 argument
    ipResult,    \* the variable result the closure assigns (part_002:16)
    ipRet,       \* what GetWithRetry returned
    \* ---- the DNS provider and the upsertRecord calls ----
    records,     \* the provider's records, in its response order
    up,          \* per caller: the upsertRecord call it is in
    hist,        \* per caller: the upsertRecord calls it has finished, in order
    \* ---- main and processZone ----
    cfg,         \* config.Config as parsed from CF_CONFIG
    ipv6Enabled, \* CF_IPV6_ENABLED == "true"
    mainpc,      \* position of main
    ipv4,        \* main's ipv4
    ipv6,        \* main's ipv6 ("" when disabled or not detected)
    zpc,         \* per zone goroutine: position in processZone
    baseDomain,  \* per zone goroutine: baseDomain of processZone
    sem,         \* per zone goroutine: number of elements in the channel sem
    wpc,         \* per subdomain goroutine <<zone, subdomain>>: its position
    parsed,      \* config.Config as json.Unmarshal left it (before the defaults)
    zoneErr,     \* per zone goroutine: what processZone returned (NoErr = nil)
    logged       \* per subdomain goroutine: its upsertRecord calls that returned,
                 \* in order, each with whether slog.Error reported it

ipVars == <<isIPv6, ipResult, ipRet>>

retryVars == <<config, rpc, attempt, lastErr, backoff, timerFired, cancelled, fnLog, result, ipVars>>

upsertVars == <<records, up, hist>>

runVars == <<cfg, ipv6Enabled, mainpc, ipv4, ipv6, zpc, baseDomain, sem, wpc, parsed, zoneErr, logged>>

vars == <<retryVars, upsertVars, runVars>>

(***************************************************************************)
(* Errors.  An error value is a record: net says whether it implements     *)
(* net.Error (with its Timeout() and Temporary() answers), msg is the      *)
(* text of Error() as a sequence of words.  call tags the invocation of fn *)
(* that produced it, so that "the last error" can be told from earlier     *)
(* ones.                                                                   *)
(***************************************************************************)
NoErr == [kind |-> "nil"]

NetErr(to, tmp) == [kind |-> "err", net |-> TRUE, timeout |-> to, temporary |-> tmp, msg |-> <<"lookup">>]
MsgErr(m) == [kind |-> "err", net |-> FALSE, timeout |-> FALSE, temporary |-> FALSE, msg |-> m]

\* The errors fn may return in the model.
FnErrors ==
    { NetErr(TRUE, FALSE),                       \* &net.DNSError{IsTimeout: true}
      NetErr(FALSE, FALSE),                      \* a net.Error that is neither
      MsgErr(<<"dial", "connection refused">>),
      MsgErr(<<"permanent", "error">>) }

\* retry.go:105-113
retryablePatterns ==
    << <<"connection refused">>, <<"connection reset">>, <<"no such host">>,
       <<"timeout">>, <<"temporary failure">>, <<"too many open files">>,
       <<"i/o", "timeout">> >>

\* retry.go:131-138
findSubstring(s, substr) ==
    \E i \in 0..(Len(s) - Len(substr)) : SubSeq(s, i + 1, i + Len(substr)) = substr

\* retry.go:124-129
contains(s, substr) ==
    /\ Len(s) >= Len(substr)
    /\ \/ s = substr
       \/ /\ Len(s) > Len(substr)
          /\ \/ SubSeq(s, 1, Len(substr)) = substr
             \/ SubSeq(s, Len(s) - Len(substr) + 1, Len(s)) = substr
             \/ findSubstring(s, substr)

\* a classification that looks at the message whatever the type of the error
isRetryableError_MessageFirst(err) ==
    \/ err.net /\ (err.timeout \/ err.temporary)
    \/ \E i \in 1..Len(retryablePatterns) : contains(err.msg, retryablePatterns[i])

\* retry.go:99-122
isRetryableError(err) ==
    IF err.net
    THEN err.timeout \/ err.temporary
    ELSE \E i \in 1..Len(retryablePatterns) : contains(err.msg, retryablePatterns[i])

(***************************************************************************)
(* retry.WithBackoff                                                       *)
(***************************************************************************)
Policies ==
    [MaxRetries : (-1)..MaxRetriesBound, InitialWait : 0..MaxWaitBound, MaxWait : 0..MaxWaitBound]

Pow2(n) == IF n <= 0 THEN 1 ELSE 2 ^ n

Min(a, b) == IF a <= b THEN a ELSE b

\* the range of time.Duration
MaxDuration == 2 ^ (DurationBits - 1) - 1
MinDuration == -(2 ^ (DurationBits - 1))

\* two's complement arithmetic on time.Duration: the result of + - * wraps
WrapDuration(x) == ((x - MinDuration) % (2 ^ DurationBits)) + MinDuration

\* retry.go:48: time.Duration(math.Pow(2, float64(n))).  The conversion of a
\* float64 outside the range of int64 is implementation-dependent: the smallest
\* int64 on amd64, the largest on arm64.
PowDurations(n) ==
    IF n <= DurationBits - 2 THEN {Pow2(n)} ELSE {MinDuration, MaxDuration}

\* retry.go:48-51: the exponential delay before attempt k >= 1, capped
BaseBackoffs(pol, k) ==
    { LET b == WrapDuration(p * pol.InitialWait)
      IN  IF b > pol.MaxWait THEN pol.MaxWait ELSE b : p \in PowDurations(k - 1) }

\* a jitter of up to the whole delay
Jitters_Full(b) == IF b >= 0 THEN 0..b ELSE b..0

\* retry.go:53: time.Duration(rand.Float64() * 0.5 * float64(backoff)), rand in
\* [0,1), the conversion truncating towards zero
Jitters(b) ==
    IF b >= 0 THEN 0..((b + 1) \div 2 - 1) \cup {0}
    ELSE (-((1 - b) \div 2 - 1))..0

\* retry.go:53-58: the delays attempt k may wait
Backoffs(pol, k) ==
    UNION { { WrapDuration(b + j) : j \in Jitters(b) } \cup
            { WrapDuration(b - j) : j \in Jitters(b) } : b \in BaseBackoffs(pol, k) }

Returned(kind, op, wraps) == [kind |-> kind, op |-> op, wraps |-> wraps]
NotReturned == [kind |-> "running"]

\* ctx.Err() of a cancelled context
CtxCanceled == [kind |-> "err", net |-> FALSE, timeout |-> FALSE, temporary |-> FALSE,
                msg |-> <<"context", "canceled">>]

Operation == "test"

\* WithBackoff is entered (retry.go:43-46), with a context that may have been
\* cancelled already
WithBackoffEntry ==
    /\ config \in Policies
    /\ attempt = 0
    /\ lastErr = NoErr
    /\ backoff = 0
    /\ timerFired = FALSE
    /\ cancelled \in BOOLEAN
    /\ fnLog = <<>>
    \* retry.go:46: the loop condition attempt <= config.MaxRetries at attempt 0
    /\ IF config.MaxRetries >= 0
       THEN rpc = "call" /\ result = NotReturned
       ELSE rpc = "done" /\ result = Returned("exhausted", Operation, NoErr)

\* number of invocations of fn so far
calls == Len(fnLog)

\* the error e as returned by the n-th invocation of fn
Tagged(e, n) == [kind |-> e.kind, net |-> e.net, timeout |-> e.timeout,
                 temporary |-> e.temporary, msg |-> e.msg, call |-> n]

\* retry.go:74 with attempt as it stands: fn is invoked and returns.
CallFn ==
    /\ rpc = "call"
    /\ \/ /\ fnLog' = Append(fnLog, NoErr)
          /\ rpc' = "done"                      \* retry.go:88-93
          /\ result' = Returned("ok", Operation, NoErr)
          /\ UNCHANGED lastErr
       \/ \E e \in FnErrors :                   \* retry.go:75
             /\ fnLog' = Append(fnLog, Tagged(e, calls + 1))
             /\ lastErr' = Tagged(e, calls + 1)
             /\ rpc' = "failed"
             /\ UNCHANGED result
    /\ UNCHANGED <<config, attempt, backoff, timerFired, cancelled>>

\* retry.go:77-85, then the loop's attempt++ and condition (46), the delay
\* (47-58) and the evaluation of time.After(backoff) on entering the select (70),
\* or the return after the loop (96).  ctxErr is ctx.Err() != nil, retryable is
\* isRetryableError(err), more is the loop condition for the next attempt.
AfterFailStep(ctxErr, retryable, more) ==
    /\ rpc = "failed"
    /\ IF ctxErr
       THEN /\ rpc' = "done"
            /\ result' = Returned("cancelled", Operation, CtxCanceled)
            /\ UNCHANGED <<attempt, backoff, timerFired>>
       ELSE IF ~retryable
       THEN /\ rpc' = "done"
            /\ result' = Returned("nonretryable", Operation, lastErr)
            /\ UNCHANGED <<attempt, backoff, timerFired>>
       ELSE IF ~more
       THEN /\ attempt' = attempt + 1
            /\ rpc' = "done"
            /\ result' = Returned("exhausted", Operation, lastErr)
            /\ UNCHANGED <<backoff, timerFired>>
       ELSE /\ attempt' = attempt + 1
            /\ backoff' \in Backoffs(config, attempt + 1)
            /\ timerFired' = FALSE
            /\ rpc' = "select"
            /\ UNCHANGED result
    /\ UNCHANGED <<config, lastErr, cancelled, fnLog>>

\* a loop that runs one attempt too many (attempt <= MaxRetries + 1)
AfterFail_OneMore ==
    AfterFailStep(cancelled, isRetryableError(lastErr), attempt <= config.MaxRetries)

\* a loop that retries whatever the error is
AfterFail_RetryAll ==
    AfterFailStep(cancelled, TRUE, attempt + 1 <= config.MaxRetries)

\* a loop that looks at the context only when the error is retryable
AfterFail_ClassifyFirst ==
    AfterFailStep(cancelled /\ isRetryableError(lastErr), isRetryableError(lastErr),
                  attempt + 1 <= config.MaxRetries)

\* retry.go:74-86 and 46-58 for the error fn just returned
AfterFail ==
    AfterFailStep(cancelled, isRetryableError(lastErr), attempt + 1 <= config.MaxRetries)

\* a select that does not wait for the timer
SelectPoll_NoWait ==
    /\ rpc = "select"
    /\ \/ /\ cancelled
          /\ rpc' = "done"
          /\ result' = Returned("cancelled", Operation, CtxCanceled)
       \/ /\ rpc' = "call"
          /\ UNCHANGED result
    /\ UNCHANGED <<config, attempt, lastErr, backoff, timerFired, cancelled, fnLog>>

\* retry.go:67-71: the select looks at its two channels.  Of the ready cases
\* one is chosen (at random when both are); with none ready the goroutine parks.
SelectPoll ==
    /\ rpc = "select"
    /\ \/ /\ cancelled                          \* case <-ctx.Done()
          /\ rpc' = "done"
          /\ result' = Returned("cancelled", Operation, CtxCanceled)
       \/ /\ timerFired                         \* case <-time.After(backoff)
          /\ rpc' = "call"
          /\ UNCHANGED result
       \/ /\ ~cancelled /\ ~timerFired
          /\ rpc' = "parked"
          /\ UNCHANGED result
    /\ UNCHANGED <<config, attempt, lastErr, backoff, timerFired, cancelled, fnLog>>

\* The timer of time.After(backoff) expires; a goroutine parked in the select
\* is woken with the timer case.
TimerFire ==
    /\ rpc \in {"select", "parked"}
    /\ ~timerFired
    /\ timerFired' = TRUE
    /\ rpc' = IF rpc = "parked" THEN "call" ELSE rpc
    /\ UNCHANGED <<config, attempt, lastErr, backoff, cancelled, fnLog, result>>

\* The context is cancelled (by fn itself, as in the test, or by anyone else);
\* a goroutine parked in the select is woken with the ctx.Done() case (69).
Cancel ==
    /\ ~cancelled
    /\ rpc # "done"
    /\ cancelled' = TRUE
    /\ IF rpc = "parked"
       THEN /\ rpc' = "done"
            /\ result' = Returned("cancelled", Operation, CtxCanceled)
       ELSE UNCHANGED <<rpc, result>>
    /\ UNCHANGED <<config, attempt, lastErr, backoff, timerFired, fnLog>>

\* The variables of ip.GetWithRetry while nothing runs it.
IPIdle ==
    /\ isIPv6 = FALSE
    /\ ipResult = <<>>
    /\ ipRet = NotReturned

\* The variables of WithBackoff while nothing runs it.
RetryIdle ==
    /\ IPIdle
    /\ config = [MaxRetries |-> 0, InitialWait |-> 0, MaxWait |-> 0]
    /\ rpc = "done"
    /\ attempt = 0
    /\ lastErr = NoErr
    /\ backoff = 0
    /\ timerFired = FALSE
    /\ cancelled = FALSE
    /\ fnLog = <<>>
    /\ result = NotReturned

(***************************************************************************)
(* The DNS provider.  A record is [id, type, name, content, proxied, ttl]  *)
(* (Record, part_000:15-22); names are sequences of characters.            *)
(***************************************************************************)
Concat(s, t) == s \o t

\* strings.ToLower on the characters of the model
ToLower(s) == [i \in 1..Len(s) |-> IF s[i] = "W" THEN "w" ELSE s[i]]

RECURSIVE TrimLeft(_)
TrimLeft(s) == IF s # <<>> /\ Head(s) = " " THEN TrimLeft(Tail(s)) ELSE s

RECURSIVE TrimRight(_)
TrimRight(s) ==
    IF s # <<>> /\ s[Len(s)] = " " THEN TrimRight(SubSeq(s, 1, Len(s) - 1)) ELSE s

\* strings.TrimSpace
TrimSpace(s) == TrimRight(TrimLeft(s))

\* the wire form of a Record without its id (json omitempty), as sent in a body
Body(type, name, content, proxied, ttl) ==
    [type |-> type, name |-> name, content |-> content, proxied |-> proxied, ttl |-> ttl]

NoBody == [type |-> "", name |-> <<>>, content |-> "", proxied |-> FALSE, ttl |-> 0]

\* The provider's records are a set; the id of a record is <<type, name, n>>
\* for the n-th record created under that name and type, and the provider
\* answers a list query in that order.
NoId == <<>>

Matching(recs, type, name) == { r \in recs : r.type = type /\ r.name = name }

\* listRecords(type, name): the provider's records of that name and type, in order
ProviderList(recs, type, name) ==
    [n \in 1..Cardinality(Matching(recs, type, name)) |->
        CHOOSE r \in Matching(recs, type, name) : r.id = <<type, name, n>>]

\* the ttl the provider stores: "automatic" (1) for a proxied record when it
\* normalises (auto), the ttl sent otherwise
StoredTTL(body, auto) == IF body.proxied /\ auto THEN 1 ELSE body.ttl

FreshId(recs, type, name) == <<type, name, Cardinality(Matching(recs, type, name)) + 1>>

\* createRecord: a new record, last of its name and type
ProviderCreate(recs, body, auto) ==
    recs \cup { [id |-> FreshId(recs, body.type, body.name), type |-> body.type,
                 name |-> body.name, content |-> body.content, proxied |-> body.proxied,
                 ttl |-> StoredTTL(body, auto)] }

\* updateRecord(id): last write wins on every field supplied
ProviderUpdate(recs, id, body, auto) ==
    { IF r.id = id
      THEN [id |-> id, type |-> body.type, name |-> body.name, content |-> body.content,
            proxied |-> body.proxied, ttl |-> StoredTTL(body, auto)]
      ELSE r : r \in recs }

(***************************************************************************)
(* cfAPI (part_000:150-184).  A response is what httpClient.Do and the     *)
(* reading of the body give: a transport error, or a status and a body.    *)
(* A body is [decodable, success, result].                                 *)
(***************************************************************************)
TransportErrors == { MsgErr(<<"dial", "connection refused">>), MsgErr(<<"tls", "handshake", "failure">>) }

RespBody(decodable, success, res) == [decodable |-> decodable, success |-> success, result |-> res]

Response(terr, status, body) == [terr |-> terr, status |-> status, body |-> body]

\* the bodies a provider may send with list result res
BodiesOf(res) ==
    { RespBody(TRUE, TRUE, res), RespBody(TRUE, FALSE, <<>>), RespBody(FALSE, FALSE, <<>>) }

\* every response to a request whose truthful result is res
Responses(res) ==
    { Response(e, 0, RespBody(FALSE, FALSE, <<>>)) : e \in TransportErrors } \cup
    { Response(NoErr, st, RespBody(TRUE, FALSE, <<>>)) : st \in {400, 500} } \cup
    { Response(NoErr, 200, b) : b \in BodiesOf(res) }

\* the provider carried the request out: 2xx with success=true
Applied(resp) == resp.terr = NoErr /\ resp.status < 400 /\ resp.body.decodable /\ resp.body.success

Wrap(stage, cause) == [kind |-> "err", stage |-> stage, cause |-> cause]

HTTPErr(st) == MsgErr(<<"HTTP", ToString(st)>>)

\* part_000:168-183: what cfAPI returns for a response: [data, err]
cfAPI(resp) ==
    IF resp.terr # NoErr
    THEN [data |-> NoBody, err |-> Wrap("execute request", resp.terr)]
    ELSE IF resp.status >= 400
    THEN [data |-> NoBody, err |-> Wrap("HTTP", HTTPErr(resp.status))]
    ELSE [data |-> resp.body, err |-> NoErr]

(***************************************************************************)
(* upsertRecord (part_000:98-148), one step per network call.              *)
(***************************************************************************)
Args(zoneID, fqdn, recordType, ip, proxied, ttl) ==
    [zoneID |-> zoneID, fqdn |-> fqdn, recordType |-> recordType, ip |-> ip,
     proxied |-> proxied, ttl |-> ttl]

NoRecord == [id |-> NoId, type |-> "", name |-> <<>>, content |-> "", proxied |-> FALSE, ttl |-> 0]

\* a request as cfAPI sends it; resp is filled in when the response arrives
Request(method, zone, type, name, id, body) ==
    [method |-> method, zone |-> zone, type |-> type, name |-> name, id |-> id,
     body |-> body, resp |-> "inflight"]

RespKind(resp) ==
    IF resp.terr # NoErr THEN "transport"
    ELSE IF resp.status >= 400 THEN "status"
    ELSE IF ~resp.body.decodable THEN "undecodable"
    ELSE IF ~resp.body.success THEN "apifail"
    ELSE "ok"

\* an upsertRecord call: where it is, its arguments, the list result it decoded,
\* the record it selected, the requests it issued, what it returned and logged
NoCall ==
    [pc |-> "idle", args |-> Args("", <<>>, "", "", FALSE, 0), listed |-> <<>>,
     existing |-> NoRecord, reqs |-> <<>>, ret |-> NoErr, outcome |-> "none"]

\* the last request of call u answered by resp
Answered(u, resp) ==
    [u EXCEPT !.reqs[Len(u.reqs)].resp = RespKind(resp)]

\* the call returns err (or nil) having logged outcome
ReturnFrom(u, err, outcome) == [u EXCEPT !.pc = "done", !.ret = err, !.outcome = outcome]

\* part_000:113-119
DesiredBody(a) == Body(a.recordType, a.fqdn, a.ip, a.proxied, a.ttl)

\* a comparison that forgets the provider's automatic ttl
IsUpToDate_StrictTTL(existing, a) ==
    existing.content = a.ip /\ existing.proxied = a.proxied /\ existing.ttl = a.ttl

\* a comparison that takes 0 for the automatic ttl
IsUpToDate_WrongSentinel(existing, a) ==
    LET ttlMatches == existing.ttl = a.ttl \/ (a.proxied /\ existing.ttl = 0)
    IN  existing.content = a.ip /\ existing.proxied = a.proxied /\ ttlMatches

\* part_000:135-136
IsUpToDate(existing, a) ==
    LET ttlMatches == existing.ttl = a.ttl \/ (a.proxied /\ existing.ttl = 1)
    IN  existing.content = a.ip /\ existing.proxied = a.proxied /\ ttlMatches

\* a selection of the last record returned
Selected_Last(listed) == listed[Len(listed)]

\* part_000:134
Selected(listed) == listed[1]

\* part_000:99-100: caller c enters upsertRecord(a) and the list query is sent
UpsertStart(c, a) ==
    /\ up[c].pc \in {"idle", "done"}
    /\ up' = [up EXCEPT ![c] =
                 [NoCall EXCEPT !.pc = "list", !.args = a,
                     !.reqs = <<Request("GET", a.zoneID, a.recordType, a.fqdn, NoId, NoBody)>>]]

\* a create that sends the default ttl, not the desired one
CreateRequest_DefaultTTL(a) ==
    Request("POST", a.zoneID, "", <<>>, NoId, Body(a.recordType, a.fqdn, a.ip, a.proxied, 300))

\* part_000:122-123
CreateRequest(a) == Request("POST", a.zoneID, "", <<>>, NoId, DesiredBody(a))

\* part_000:141-142
UpdateRequest(a, existing) == Request("PUT", a.zoneID, "", <<>>, existing.id, DesiredBody(a))

\* part_000:113-142 once the list response is decoded: create, skip or update
Decide(u, listed) ==
    IF Len(listed) = 0
    THEN [u EXCEPT !.pc = "create", !.listed = listed,
                   !.reqs = Append(u.reqs, CreateRequest(u.args))]
    ELSE IF IsUpToDate(Selected(listed), u.args)
    THEN [ReturnFrom(u, NoErr, "NoOp") EXCEPT !.listed = listed, !.existing = Selected(listed)]
    ELSE [u EXCEPT !.pc = "update", !.listed = listed, !.existing = Selected(listed),
                   !.reqs = Append(u.reqs, UpdateRequest(u.args, Selected(listed)))]

\* a list query whose envelope is not looked at
AfterList_IgnoreSuccess(u, resp) ==
    LET r == cfAPI(resp) IN
    IF r.err # NoErr
    THEN ReturnFrom(Answered(u, resp), Wrap("list records", r.err), "Failed")
    ELSE IF ~r.data.decodable
    THEN ReturnFrom(Answered(u, resp), Wrap("unmarshal list response", NoErr), "Failed")
    ELSE Decide(Answered(u, resp), r.data.result)

\* part_000:100-111 for the response resp to the list query, then 113-142
AfterList(u, resp) ==
    LET r == cfAPI(resp) IN
    IF r.err # NoErr
    THEN ReturnFrom(Answered(u, resp), Wrap("list records", r.err), "Failed")
    ELSE IF ~r.data.decodable
    THEN ReturnFrom(Answered(u, resp), Wrap("unmarshal list response", NoErr), "Failed")
    ELSE IF ~r.data.success
    THEN ReturnFrom(Answered(u, resp), Wrap("list API error", NoErr), "Failed")
    ELSE Decide(Answered(u, resp), r.data.result)

\* the list query of caller c is answered with resp
ListReturn(c, resp) ==
    /\ up[c].pc = "list"
    /\ up' = [up EXCEPT ![c] = AfterList(up[c], resp)]
    /\ UNCHANGED records

\* a create that is sent again after a retryable failure, up to the default policy
AfterCreate_Retrying(u, resp) ==
    LET r == cfAPI(resp) IN
    IF r.err # NoErr
    THEN IF isRetryableError(r.err.cause) /\ Len(u.reqs) <= DefaultMaxRetries + 1
         THEN [Answered(u, resp) EXCEPT !.reqs = Append(@, CreateRequest(u.args))]
         ELSE ReturnFrom(Answered(u, resp), Wrap("create record", r.err), "Failed")
    ELSE ReturnFrom(Answered(u, resp), NoErr, "Created")

\* part_000:123-127 for the response resp to the create request
AfterCreate(u, resp) ==
    LET r == cfAPI(resp) IN
    IF r.err # NoErr
    THEN ReturnFrom(Answered(u, resp), Wrap("create record", r.err), "Failed")
    ELSE ReturnFrom(Answered(u, resp), NoErr, "Created")

\* part_000:142-147 for the response resp to the update request
AfterUpdate(u, resp) ==
    LET r == cfAPI(resp) IN
    IF r.err # NoErr
    THEN ReturnFrom(Answered(u, resp), Wrap("update record", r.err), "Failed")
    ELSE ReturnFrom(Answered(u, resp), NoErr, "Updated")

\* the create request of caller c is answered with resp; the provider has
\* created the record when it answers 2xx with success=true
CreateReturn(c, resp, auto) ==
    /\ up[c].pc = "create"
    /\ up' = [up EXCEPT ![c] = AfterCreate(up[c], resp)]
    /\ records' = IF Applied(resp)
                  THEN ProviderCreate(records, up[c].reqs[Len(up[c].reqs)].body, auto)
                  ELSE records

\* the update request of caller c is answered with resp
UpdateReturn(c, resp, auto) ==
    /\ up[c].pc = "update"
    /\ up' = [up EXCEPT ![c] = AfterUpdate(up[c], resp)]
    /\ records' = IF Applied(resp)
                  THEN ProviderUpdate(records, up[c].reqs[Len(up[c].reqs)].id,
                                      up[c].reqs[Len(up[c].reqs)].body, auto)
                  ELSE records

\* the truthful answer to the list query caller c has in flight
ListedFor(c) == ProviderList(records, up[c].args.recordType, up[c].args.fqdn)

(***************************************************************************)
(* The upsertRecord tests (part_001:97-319): one caller, a provider with   *)
(* some records, the same call made twice in a row.                        *)
(***************************************************************************)
TestName == <<"t", ".", "d">>        \* "test.example.com"
OtherName == <<"o", ".", "d">>

Contents == {"1.2.3.4", "5.6.7.8"}
RemoteTTLs == {1, 120, 300}
DesiredTTLs == {120, 300}

\* the records a provider may hold for the tested name, and one of another name
RemoteRecords ==
    { [type |-> "A", name |-> TestName, content |-> ct, proxied |-> px, ttl |-> t] :
        ct \in Contents, px \in BOOLEAN, t \in RemoteTTLs } \cup
    { [type |-> "A", name |-> OtherName, content |-> "5.6.7.8", proxied |-> FALSE, ttl |-> 300] }

\* the provider's records after rs were created in this order
RECURSIVE CreatedInOrder(_)
CreatedInOrder(rs) ==
    IF rs = <<>> THEN {}
    ELSE LET before == CreatedInOrder(SubSeq(rs, 1, Len(rs) - 1))
             r == rs[Len(rs)]
         IN  before \cup { [id |-> FreshId(before, r.type, r.name), type |-> r.type,
                            name |-> r.name, content |-> r.content,
                            proxied |-> r.proxied, ttl |-> r.ttl] }

InitialRecords ==
    { CreatedInOrder(rs) : rs \in UNION { [1..n -> RemoteRecords] : n \in 0..MaxRemote } }

TestArgs ==
    { Args("zone123", TestName, "A", "1.2.3.4", px, t) : px \in BOOLEAN, t \in DesiredTTLs }

Tester == "t"

\* The variables of main and processZone while nothing runs them.
RunIdle ==
    /\ cfg = [Zones |-> <<>>, DefaultTTL |-> 0, ConcurrencyLimit |-> 0]
    /\ ipv6Enabled = FALSE
    /\ mainpc = "off"
    /\ ipv4 = ""
    /\ ipv6 = ""
    /\ zpc = <<>>
    /\ baseDomain = <<>>
    /\ sem = <<>>
    /\ wpc = <<>>
    /\ parsed = cfg
    /\ zoneErr = <<>>
    /\ logged = <<>>

UpsertInit ==
    /\ RetryIdle
    /\ RunIdle
    /\ records \in InitialRecords
    /\ \E a \in TestArgs : up = [c \in {Tester} |-> [NoCall EXCEPT !.args = a]]
    /\ hist = [c \in {Tester} |-> <<>>]

\* the test calls upsertRecord (part_001:124), and once more with the same
\* arguments after it returned
TestCall ==
    /\ Len(hist[Tester]) = 0
    /\ UpsertStart(Tester, up[Tester].args)
    /\ hist' = [hist EXCEPT ![Tester] = IF up[Tester].pc = "done" THEN Append(@, up[Tester]) ELSE @]
    /\ UNCHANGED records

UpsertNext ==
    \/ TestCall /\ UNCHANGED <<retryVars, runVars>>
    \/ \E resp \in Responses(ListedFor(Tester)) :
          ListReturn(Tester, resp) /\ UNCHANGED <<retryVars, runVars, hist>>
    \/ \E resp \in Responses(<<>>), auto \in BOOLEAN :
          CreateReturn(Tester, resp, auto) /\ UNCHANGED <<retryVars, runVars, hist>>
    \/ \E resp \in Responses(<<>>), auto \in BOOLEAN :
          UpdateReturn(Tester, resp, auto) /\ UNCHANGED <<retryVars, runVars, hist>>

SpecUpsert == UpsertInit /\ [][UpsertNext]_vars

\* The variables of the provider and the callers while WithBackoff is studied.
UpsertIdle ==
    /\ records = {}
    /\ up = [c \in {Tester} |-> NoCall]
    /\ hist = [c \in {Tester} |-> <<>>]

RetryNext ==
    \/ CallFn /\ UNCHANGED <<upsertVars, runVars, ipVars>>
    \/ AfterFail /\ UNCHANGED <<upsertVars, runVars, ipVars>>
    \/ SelectPoll /\ UNCHANGED <<upsertVars, runVars, ipVars>>
    \/ TimerFire /\ UNCHANGED <<upsertVars, runVars, ipVars>>
    \/ Cancel /\ UNCHANGED <<upsertVars, runVars, ipVars>>

RetryInit ==
    /\ WithBackoffEntry
    /\ IPIdle
    /\ UpsertIdle
    /\ RunIdle

SpecRetry == RetryInit /\ [][RetryNext]_vars

(***************************************************************************)
(* isRetryableError taken alone (retry.go:81, 99-122): an error is drawn   *)
(* and classified.  A message is a sequence of phrases.                    *)
(***************************************************************************)
Phrases ==
    { "connection refused", "connection reset", "no such host", "timeout",
      "temporary failure", "too many open files", "i/o", "by peer", "request",
      "permanent failure", "invalid input" }

Messages == UNION { [1..n -> Phrases] : n \in 0..MaxMsgLen }

\* an error that implements net.Error and whose Error() is m
NetErrMsg(to, tmp, m) ==
    [kind |-> "err", net |-> TRUE, timeout |-> to, temporary |-> tmp, msg |-> m]

\* the errors classified: errors.New(m) for every message, and net.Errors of
\* every answer to Timeout() and Temporary()
ClassifiedErrors ==
    { MsgErr(m) : m \in Messages } \cup
    { NetErrMsg(to, tmp, m) : to \in BOOLEAN, tmp \in BOOLEAN,
        m \in { <<"lookup">>, <<"dial", "connection refused">>, <<"i/o", "timeout">> } }

ClassifyInit ==
    /\ config = [MaxRetries |-> 0, InitialWait |-> 0, MaxWait |-> 0]
    /\ rpc = "classify"
    /\ attempt = 0
    /\ lastErr \in ClassifiedErrors
    /\ backoff = 0
    /\ timerFired = FALSE
    /\ cancelled = FALSE
    /\ fnLog = <<>>
    /\ result = NotReturned
    /\ IPIdle
    /\ UpsertIdle
    /\ RunIdle

\* retry.go:81: isRetryableError(err) is evaluated
Classify ==
    /\ rpc = "classify"
    /\ rpc' = "done"
    /\ result' = Returned(IF isRetryableError(lastErr) THEN "retryable" ELSE "nonretryable",
                          Operation, lastErr)
    /\ UNCHANGED <<config, attempt, lastErr, backoff, timerFired, cancelled, fnLog>>

ClassifyNext == Classify /\ UNCHANGED <<upsertVars, runVars, ipVars>>

SpecClassify == ClassifyInit /\ [][ClassifyNext]_vars

(***************************************************************************)
(* The delay computation of WithBackoff taken alone (retry.go:46-58): fn   *)
(* fails with a retryable error every time and the delay of each attempt   *)
(* is computed in turn.                                                    *)
(***************************************************************************)
BackoffPolicies ==
    [MaxRetries : {MaxAttemptBound}, InitialWait : 0..MaxBackoffWait,
     MaxWait : (0..MaxBackoffWait) \cup {MaxDuration}]

BackoffInit ==
    /\ config \in BackoffPolicies
    /\ rpc = "backoff"
    /\ attempt = 0
    /\ lastErr = NoErr
    /\ backoff = 0
    /\ timerFired = FALSE
    /\ cancelled = FALSE
    /\ fnLog = <<>>
    /\ result = NotReturned
    /\ IPIdle
    /\ UpsertIdle
    /\ RunIdle

\* retry.go:46-58: attempt++ and the delay of the attempt
ComputeBackoff ==
    /\ rpc = "backoff"
    /\ attempt + 1 <= config.MaxRetries
    /\ attempt' = attempt + 1
    /\ backoff' \in Backoffs(config, attempt + 1)
    /\ UNCHANGED <<config, rpc, lastErr, timerFired, cancelled, fnLog, result>>

BackoffNext == ComputeBackoff /\ UNCHANGED <<upsertVars, runVars, ipVars>>

SpecBackoff == BackoffInit /\ [][BackoffNext]_vars

(***************************************************************************)
(* ip.GetWithRetry (part_002:15-43): WithBackoff under                     *)
(* retry.DefaultConfig(), fn being the closure that fetches the address    *)
(* (getIP) and validates it (validateIP).  A text (a response body, an     *)
(* address, a message) is a sequence of words, " " standing for white      *)
(* space.  The caller may cancel the context at any time.                  *)
(***************************************************************************)
\* retry.go:33-39, in seconds
DefaultConfig == [MaxRetries |-> DefaultMaxRetries, InitialWait |-> 1, MaxWait |-> 32]

\* the addresses of the model: dotted IPv4, IPv6, and IPv4-mapped IPv6
IPv4Texts == {"192.168.1.1"}
IPv6Texts == {"2001:db8::1"}
MappedTexts == {"::ffff:192.168.1.1"}

\* net.ParseIP: nil, or the address; To4 says whether the address has a 4-byte
\* form (a dotted IPv4 or an IPv4-mapped IPv6 address)
ParseIP(s) ==
    IF Len(s) = 1 /\ s[1] \in IPv4Texts THEN [nil |-> FALSE, To4 |-> TRUE]
    ELSE IF Len(s) = 1 /\ s[1] \in MappedTexts THEN [nil |-> FALSE, To4 |-> TRUE]
    ELSE IF Len(s) = 1 /\ s[1] \in IPv6Texts THEN [nil |-> FALSE, To4 |-> FALSE]
    ELSE [nil |-> TRUE, To4 |-> FALSE]

\* part_002:76-93
validateIP(ip, v6) ==
    LET p == ParseIP(ip) IN
    IF p.nil THEN MsgErr(<<"invalid IP address">> \o ip)
    ELSE IF v6 /\ p.To4 THEN MsgErr(<<"expected IPv6 but got IPv4">> \o ip)
    ELSE IF ~v6 /\ ~p.To4 THEN MsgErr(<<"expected IPv4 but got IPv6">> \o ip)
    ELSE NoErr

\* what retry.HTTPClient.Do and io.ReadAll give getIP: a transport error, or a
\* status and then a read error or the body
IPResponse(terr, status, rerr, body) ==
    [terr |-> terr, status |-> status, rerr |-> rerr, body |-> body]

IPBodies ==
    { <<"192.168.1.1">>, <<"192.168.1.1", " ">>, <<"2001:db8::1">>,
      <<"::ffff:192.168.1.1">>, <<"not-an-ip">>, <<"gateway", "timeout">>, <<" ">> }

IPResponses ==
    { IPResponse(e, 0, NoErr, <<>>) : e \in TransportErrors } \cup
    { IPResponse(NoErr, 500, NoErr, <<>>),
      IPResponse(NoErr, 200, MsgErr(<<"unexpected EOF">>), <<>>) } \cup
    { IPResponse(NoErr, 200, NoErr, b) : b \in IPBodies }

IPServiceURL == <<"https://api.ipify.org">>

\* part_002:45-74: [ip, err]
getIP(resp) ==
    IF resp.terr # NoErr
    THEN [ip |-> <<>>, err |-> MsgErr(<<"execute request">> \o resp.terr.msg)]
    ELSE IF resp.status # 200
    THEN [ip |-> <<>>, err |-> MsgErr(<<"unexpected status", ToString(resp.status)>>)]
    ELSE IF resp.rerr # NoErr
    THEN [ip |-> <<>>, err |-> MsgErr(<<"read response">> \o resp.rerr.msg)]
    ELSE IF TrimSpace(resp.body) = <<>>
    THEN [ip |-> <<>>, err |-> MsgErr(<<"empty response from">> \o IPServiceURL)]
    ELSE [ip |-> TrimSpace(resp.body), err |-> NoErr]

\* part_002:24-36: the closure handed to WithBackoff: [ip, err], ip being what
\* it assigns to result
FetchAndValidate(resp, v6) ==
    LET got == getIP(resp) IN
    IF got.err # NoErr THEN got
    ELSE IF validateIP(got.ip, v6) # NoErr
    THEN [ip |-> <<>>, err |-> MsgErr(<<"validation failed">> \o validateIP(got.ip, v6).msg)]
    ELSE got

\* an entry of fnLog with the body the invocation fetched (<<>> when none)
Fetched(e, n, resp) ==
    IF e = NoErr THEN [kind |-> "nil", call |-> n, body |-> resp.body]
    ELSE [kind |-> e.kind, net |-> e.net, timeout |-> e.timeout, temporary |-> e.temporary,
          msg |-> e.msg, call |-> n, body |-> resp.body]

\* part_002:15-24: GetWithRetry is entered and enters WithBackoff
GetIPInit ==
    /\ isIPv6 \in BOOLEAN
    /\ ipResult = <<>>
    /\ ipRet = NotReturned
    /\ config = DefaultConfig
    /\ attempt = 0
    /\ lastErr = NoErr
    /\ backoff = 0
    /\ timerFired = FALSE
    /\ cancelled = FALSE
    /\ fnLog = <<>>
    /\ rpc = "call"
    /\ result = NotReturned
    /\ UpsertIdle
    /\ RunIdle

\* retry.go:74 with fn the closure of part_002:24-36: one fetch, validated
GetIPCall ==
    /\ rpc = "call"
    /\ \E resp \in IPResponses :
          LET got == FetchAndValidate(resp, isIPv6) IN
          /\ fnLog' = Append(fnLog, Fetched(got.err, calls + 1, resp))
          /\ IF got.err = NoErr
             THEN /\ ipResult' = got.ip
                  /\ rpc' = "done"
                  /\ result' = Returned("ok", Operation, NoErr)
                  /\ UNCHANGED lastErr
             ELSE /\ lastErr' = Tagged(got.err, calls + 1)
                  /\ rpc' = "failed"
                  /\ UNCHANGED <<result, ipResult>>
    /\ UNCHANGED <<config, attempt, backoff, timerFired, cancelled, isIPv6, ipRet>>

\* part_002:38-42: WithBackoff has returned
GetIPReturn ==
    /\ rpc = "done"
    /\ ipRet = NotReturned
    /\ ipRet' = IF result.kind # "ok"
                THEN [kind |-> "returned", ip |-> <<>>, err |-> result]
                ELSE [kind |-> "returned", ip |-> ipResult, err |-> NoErr]
    /\ UNCHANGED <<config, rpc, attempt, lastErr, backoff, timerFired, cancelled, fnLog,
                   result, isIPv6, ipResult>>

GetIPNext ==
    \/ GetIPCall /\ UNCHANGED <<upsertVars, runVars>>
    \/ AfterFail /\ UNCHANGED <<upsertVars, runVars, ipVars>>
    \/ SelectPoll /\ UNCHANGED <<upsertVars, runVars, ipVars>>
    \/ TimerFire /\ UNCHANGED <<upsertVars, runVars, ipVars>>
    \/ Cancel /\ UNCHANGED <<upsertVars, runVars, ipVars>>
    \/ GetIPReturn /\ UNCHANGED <<upsertVars, runVars>>

SpecGetIP == GetIPInit /\ [][GetIPNext]_vars

(***************************************************************************)
(* Configuration (part_004:169-211).                                       *)
(***************************************************************************)
Subdomain(name, proxied, ttl) == [Name |-> name, Proxied |-> proxied, TTL |-> ttl]

Zone(zoneID, subdomains, ttl) == [ZoneID |-> zoneID, Subdomains |-> subdomains, TTL |-> ttl]

Config(zones, defaultTTL, limit) ==
    [Zones |-> zones, DefaultTTL |-> defaultTTL, ConcurrencyLimit |-> limit]

\* a validation that only looks at the upper limit of a subdomain ttl
Validate_UpperLimitOnly(c) ==
    /\ Len(c.Zones) # 0
    /\ \A i \in 1..Len(c.Zones) :
          /\ c.Zones[i].ZoneID # ""
          /\ Len(c.Zones[i].Subdomains) # 0
          /\ \A j \in 1..Len(c.Zones[i].Subdomains) : c.Zones[i].Subdomains[j].TTL <= MaxTTL
    /\ ~(c.ConcurrencyLimit < 0)

\* part_004:187-211: validateConfig returns nil
Validate(c) ==
    /\ Len(c.Zones) # 0
    /\ \A i \in 1..Len(c.Zones) :
          /\ c.Zones[i].ZoneID # ""
          /\ Len(c.Zones[i].Subdomains) # 0
          /\ \A j \in 1..Len(c.Zones[i].Subdomains) :
                LET sub == c.Zones[i].Subdomains[j]
                IN  ~(sub.TTL # 0 /\ (sub.TTL < MinTTL \/ sub.TTL > MaxTTL))
    /\ ~(c.ConcurrencyLimit < 0)

\* the subdomain goroutines a configuration gives rise to
WorkersOf(c) ==
    UNION { { <<z, i>> : i \in 1..Len(c.Zones[z].Subdomains) } : z \in 1..Len(c.Zones) }

\* The subdomains of the model's configurations: names that normalise to the
\* same fqdn ("w", " W") when dup, distinct names otherwise; the second is proxied.
SubNames(dup) ==
    IF dup THEN << <<"w">>, <<" ", "W">>, <<"w">>, <<"w">> >>
           ELSE << <<"w">>, <<"@">>, <<"a">>, <<>> >>

SubsOf(n, dup) ==
    [i \in 1..n |-> Subdomain(SubNames(dup)[i], i = 2, IF i = 2 THEN 120 ELSE 0)]

ZoneIDs(same) == IF same THEN <<"z1", "z1", "z1">> ELSE <<"z1", "z2", "z3">>

\* configurations of nz zones, the first with n subdomains and the others with one
ConfigOf(nz, n, dup, same, limit) ==
    Config([z \in 1..nz |-> Zone(ZoneIDs(same)[z], SubsOf(IF z = 1 THEN n ELSE 1, dup), 0)],
           0, limit)

ValidConfigs ==
    { ConfigOf(nz, n, dup, same, limit) :
        nz \in 1..MaxZones, n \in 1..MaxWorkers, dup \in BOOLEAN, same \in BOOLEAN,
        limit \in 0..MaxLimit }

\* the subdomain ttls on either side of the limits validateConfig checks
InvalidTTLs == {-1, 30, MinTTL - 1, MaxTTL + 1}
EdgeTTLs == {MinTTL, MaxTTL}

\* configurations validateConfig rejects: one for each of its checks, in the
\* first zone or subdomain and in a later one
InvalidConfigs ==
    { Config(<<>>, 0, 0),
      Config(<<Zone("", SubsOf(1, FALSE), 0)>>, 0, 0),
      Config(<<Zone("z1", <<>>, 0)>>, 0, 0),
      Config(<<Zone("z1", SubsOf(1, FALSE), 0), Zone("", SubsOf(1, FALSE), 0)>>, 0, 0),
      Config(<<Zone("z1", SubsOf(1, FALSE), 0), Zone("z2", <<>>, 0)>>, 0, 0),
      Config(<<Zone("z1", SubsOf(1, FALSE), 0)>>, 0, -1) } \cup
    { Config(<<Zone("z1", <<Subdomain(<<"w">>, FALSE, t)>>, 0)>>, 0, 0) : t \in InvalidTTLs } \cup
    { Config(<<Zone("z1", <<Subdomain(<<"w">>, FALSE, 0), Subdomain(<<"a">>, FALSE, t)>>, 0)>>, 0, 0) :
        t \in InvalidTTLs }

\* configurations at the limits of what validateConfig accepts: a subdomain
\* ttl at either end of the range, and a zone ttl and default_ttl below it
\* (neither is checked)
EdgeConfigs ==
    { Config(<<Zone("z1", <<Subdomain(<<"w">>, FALSE, t)>>, 0)>>, 0, 1) : t \in EdgeTTLs } \cup
    { Config(<<Zone("z1", <<Subdomain(<<"w">>, FALSE, 0)>>, 30)>>, 30, 1) }

\* the ttl of a zone and the default_ttl of the configurations that vary them
ZoneTTLs == {0, 600}
DefaultTTLs == {0, 3600}

\* one zone, a subdomain without a ttl and one with, under every zone ttl and
\* default_ttl; the gate admits one goroutine at a time
TTLConfigs ==
    { Config(<<Zone("z1", SubsOf(2, FALSE), zt)>>, dt, 1) : zt \in ZoneTTLs, dt \in DefaultTTLs }

\* the characters of subdomain names: a space, a capital, the apex marker
NameChars == {" ", "W", "@"}

Names == UNION { [1..n -> NameChars] : n \in 0..MaxNameLen }

\* one zone with one subdomain of every name
NameConfigs ==
    { Config(<<Zone("z1", <<Subdomain(nm, FALSE, 0)>>, 0)>>, 0, 0) : nm \in Names }

RunConfigs ==
    { c \in ValidConfigs : Cardinality(WorkersOf(c)) <= MaxWorkers } \cup InvalidConfigs
        \cup TTLConfigs \cup NameConfigs \cup EdgeConfigs

(***************************************************************************)
(* main (main.go:17-72).                                                   *)
(***************************************************************************)
\* the base domain the provider reports for a zone id
BaseDomainOf(zoneID) ==
    IF zoneID = "z1" THEN <<"d1">> ELSE IF zoneID = "z2" THEN <<"d2">> ELSE <<"d3">>

\* the responses of the provider to the zone lookup explored in a whole run: a
\* transport failure, success, success=false and a body that does not decode
ZoneResponses(res) ==
    { Response(MsgErr(<<"dial", "connection refused">>), 0, RespBody(FALSE, FALSE, <<>>)),
      Response(NoErr, 200, RespBody(TRUE, TRUE, res)),
      Response(NoErr, 200, RespBody(TRUE, FALSE, <<>>)),
      Response(NoErr, 200, RespBody(FALSE, FALSE, <<>>)) }

\* and to the requests of upsertRecord: a transport failure and success
RunResponses(res) ==
    { Response(MsgErr(<<"dial", "connection refused">>), 0, RespBody(FALSE, FALSE, <<>>)),
      Response(NoErr, 200, RespBody(TRUE, TRUE, res)) }

\* The provider at the start of a run.  It is empty, or, for the
\* configurations of one zone behind a gate of one slot, holds for w.d1 a stale
\* A record followed by a second one, and for the apex an A record that is up to
\* date for a proxied subdomain (ttl automatic).
SeededConfigs == { ConfigOf(1, n, FALSE, FALSE, 1) : n \in 1..MaxWorkers }

SeededRecords ==
    { [id |-> <<"A", <<"w", ".", "d1">>, 1>>, type |-> "A", name |-> <<"w", ".", "d1">>,
       content |-> "9.9.9.9", proxied |-> FALSE, ttl |-> 300],
      [id |-> <<"A", <<"w", ".", "d1">>, 2>>, type |-> "A", name |-> <<"w", ".", "d1">>,
       content |-> "1.2.3.4", proxied |-> FALSE, ttl |-> 300],
      [id |-> <<"A", <<"d1">>, 1>>, type |-> "A", name |-> <<"d1">>,
       content |-> "1.2.3.4", proxied |-> TRUE, ttl |-> 1] }

ProviderAtStart(c) == IF c \in SeededConfigs THEN {{}, SeededRecords} ELSE {{}}

RunInit ==
    /\ RetryIdle
    /\ cfg \in RunConfigs
    /\ ipv6Enabled \in BOOLEAN
    /\ mainpc = "start"
    /\ ipv4 = ""
    /\ ipv6 = ""
    /\ zpc = [z \in 1..Len(cfg.Zones) |-> "notstarted"]
    /\ baseDomain = [z \in 1..Len(cfg.Zones) |-> <<>>]
    /\ sem = [z \in 1..Len(cfg.Zones) |-> 0]
    /\ wpc = [w \in WorkersOf(cfg) |-> "notstarted"]
    /\ parsed = cfg
    /\ zoneErr = [z \in 1..Len(cfg.Zones) |-> NoErr]
    /\ logged = [w \in WorkersOf(cfg) |-> <<>>]
    /\ records \in ProviderAtStart(cfg)
    /\ up = [w \in WorkersOf(cfg) |-> NoCall]
    /\ hist = [w \in WorkersOf(cfg) |-> <<>>]

\* main.go:30-40: Validate, then the defaults; an invalid configuration is fatal
MainValidate ==
    /\ mainpc = "start"
    /\ IF Validate(cfg)
       THEN /\ cfg' = [cfg EXCEPT
                          !.DefaultTTL = IF @ = 0 THEN DefaultTTLFallback ELSE @,
                          !.ConcurrencyLimit = IF @ = 0 THEN DefaultConcurrencyLimit ELSE @]
            /\ mainpc' = "ipv4"
       ELSE /\ mainpc' = "exit1"
            /\ UNCHANGED cfg
    /\ UNCHANGED <<ipv6Enabled, ipv4, ipv6, zpc, baseDomain, sem, wpc, parsed, zoneErr, logged>>

\* what WithBackoff may return to ip.GetWithRetry when the discovery fails
DiscoveryErrors ==
    { Wrap("max retries exceeded", MsgErr(<<"dial", "connection refused">>)),
      Wrap("non-retryable error", MsgErr(<<"validation failed">>)) }

\* part_002:38-42: ip.GetWithRetry returns "" with the error of WithBackoff, or
\* the address fetched and nil
GetWithRetry(err, fetched) ==
    IF err # NoErr THEN [ip |-> "", err |-> err] ELSE [ip |-> fetched, err |-> NoErr]

\* main.go:44-48: ip.GetWithRetry for IPv4 returns an address or an error (fatal)
MainGetIPv4 ==
    /\ mainpc = "ipv4"
    /\ \E e \in DiscoveryErrors \cup {NoErr} :
          LET got == GetWithRetry(e, "1.2.3.4") IN
          /\ ipv4' = got.ip
          /\ mainpc' = IF got.err # NoErr THEN "exit1" ELSE "ipv6"
    /\ UNCHANGED <<cfg, ipv6Enabled, ipv6, zpc, baseDomain, sem, wpc, parsed, zoneErr, logged>>

\* a discovery of IPv6 whose failure ends the run as that of IPv4 does
MainGetIPv6_Fatal ==
    /\ mainpc = "ipv6"
    /\ IF ipv6Enabled
       THEN \E e \in DiscoveryErrors \cup {NoErr} :
               LET got == GetWithRetry(e, "2001:db8::1") IN
               /\ ipv6' = got.ip
               /\ mainpc' = IF got.err # NoErr THEN "exit1" ELSE "spawn"
       ELSE ipv6' = "" /\ mainpc' = "spawn"
    /\ UNCHANGED <<cfg, ipv6Enabled, ipv4, zpc, baseDomain, sem, wpc, parsed, zoneErr, logged>>

\* main.go:50-57: when enabled, ip.GetWithRetry for IPv6; its failure is a
\* warning and leaves ipv6 empty
MainGetIPv6 ==
    /\ mainpc = "ipv6"
    /\ IF ipv6Enabled
       THEN \E e \in DiscoveryErrors \cup {NoErr} :
               ipv6' = GetWithRetry(e, "2001:db8::1").ip
       ELSE ipv6' = ""
    /\ mainpc' = "spawn"
    /\ UNCHANGED <<cfg, ipv6Enabled, ipv4, zpc, baseDomain, sem, wpc, parsed, zoneErr, logged>>

\* main.go:59-68: a goroutine per zone, each entering ProcessZone, whose first
\* statement sends the zone lookup (part_000:39)
MainSpawn ==
    /\ mainpc = "spawn"
    /\ zpc' = [z \in DOMAIN zpc |-> "getzone"]
    /\ mainpc' = "wait"
    /\ UNCHANGED <<cfg, ipv6Enabled, ipv4, ipv6, baseDomain, sem, wpc, parsed, zoneErr, logged>>

\* a run that ends fatally when a zone has failed
MainCompleted_FatalOnZoneError ==
    /\ mainpc = "wait"
    /\ \A z \in DOMAIN zpc : zpc[z] \in {"returned", "failed"}
    /\ mainpc' = IF \E z \in DOMAIN zpc : zpc[z] = "failed" THEN "exit1" ELSE "completed"
    /\ UNCHANGED <<cfg, ipv6Enabled, ipv4, ipv6, zpc, baseDomain, sem, wpc, parsed, zoneErr, logged>>

\* a run that reports completion without waiting for the zone goroutines
MainCompleted_NoWait ==
    /\ mainpc = "wait"
    /\ mainpc' = "completed"
    /\ UNCHANGED <<cfg, ipv6Enabled, ipv4, ipv6, zpc, baseDomain, sem, wpc, parsed, zoneErr, logged>>

\* main.go:64-71: every zone goroutine has logged the error of ProcessZone, if
\* any, and is done; wg.Wait() returns and the run reports completion
MainCompleted ==
    /\ mainpc = "wait"
    /\ \A z \in DOMAIN zpc : zpc[z] \in {"returned", "failed"}
    /\ mainpc' = "completed"
    /\ UNCHANGED <<cfg, ipv6Enabled, ipv4, ipv6, zpc, baseDomain, sem, wpc, parsed, zoneErr, logged>>

(***************************************************************************)
(* processZone (part_000:38-96).                                           *)
(***************************************************************************)
WorkersOfZone(z) == { w \in DOMAIN wpc : w[1] = z }

\* a lookup that does not look at the envelope's success field
AfterZoneLookup_IgnoreSuccess(resp) ==
    LET r == cfAPI(resp) IN
    IF r.err # NoErr
    THEN [err |-> Wrap("get zone", r.err), name |-> <<>>]
    ELSE IF ~r.data.decodable
    THEN [err |-> Wrap("unmarshal zone response", NoErr), name |-> <<>>]
    ELSE [err |-> NoErr, name |-> r.data.result]

\* part_000:39-52 for the response resp to the zone lookup: the error
\* processZone returns, or the base domain
AfterZoneLookup(resp) ==
    LET r == cfAPI(resp) IN
    IF r.err # NoErr
    THEN [err |-> Wrap("get zone", r.err), name |-> <<>>]
    ELSE IF ~r.data.decodable
    THEN [err |-> Wrap("unmarshal zone response", NoErr), name |-> <<>>]
    ELSE IF ~r.data.success
    THEN [err |-> Wrap("zone API error", NoErr), name |-> <<>>]
    ELSE [err |-> NoErr, name |-> r.data.result]

\* part_000:39-92 for the response resp to the zone lookup: an error is returned
\* at once; otherwise the base domain is taken, sem is made and a goroutine is
\* started per subdomain
ZoneLookupReturn(z, resp) ==
    /\ zpc[z] = "getzone"
    /\ LET got == AfterZoneLookup(resp) IN
       IF got.err # NoErr
       THEN /\ zpc' = [zpc EXCEPT ![z] = "failed"]
            /\ zoneErr' = [zoneErr EXCEPT ![z] = got.err]
            /\ UNCHANGED <<baseDomain, wpc>>
       ELSE /\ baseDomain' = [baseDomain EXCEPT ![z] = got.name]
            /\ wpc' = [w \in DOMAIN wpc |-> IF w[1] = z THEN "acquire" ELSE wpc[w]]
            /\ zpc' = [zpc EXCEPT ![z] = "wait"]
            /\ UNCHANGED zoneErr
    /\ UNCHANGED <<cfg, ipv6Enabled, mainpc, ipv4, ipv6, sem, parsed, logged>>

\* a name that is used as written
Fqdn_AsWritten(s, base) ==
    IF s.Name # <<>> /\ s.Name # <<"@">> THEN Concat(Concat(s.Name, <<".">>), base) ELSE base

\* part_000:71-75
Fqdn(s, base) ==
    LET name == ToLower(TrimSpace(s.Name))
    IN  IF name # <<>> /\ name # <<"@">> THEN Concat(Concat(name, <<".">>), base) ELSE base

\* part_000:55-58
ZoneTTL(zone, defaultTTL) == IF zone.TTL = 0 THEN defaultTTL ELSE zone.TTL

\* a ttl that takes the zone's value before the subdomain's
EffectiveTTL_ZoneFirst(s, zone, defaultTTL) ==
    IF zone.TTL # 0 THEN zone.TTL ELSE IF s.TTL # 0 THEN s.TTL ELSE defaultTTL

\* part_000:77-80
EffectiveTTL(s, zone, defaultTTL) == IF s.TTL = 0 THEN ZoneTTL(zone, defaultTTL) ELSE s.TTL

\* the arguments of the upsertRecord calls of goroutine w (part_000:82, 87)
WorkerArgs(w, recordType, ip) ==
    LET zone == cfg.Zones[w[1]]
        s == zone.Subdomains[w[2]]
    IN  Args(zone.ZoneID, Fqdn(s, baseDomain[w[1]]), recordType, ip, s.Proxied,
             EffectiveTTL(s, zone, cfg.DefaultTTL))

\* a gate that never blocks
CanAcquire_Unbounded(z, limit) == TRUE

\* part_000:60, 68: sem <- struct{}{} can proceed, the channel of capacity
\* limit not being full
CanAcquire(z, limit) == sem[z] < limit

\* part_000:68-82: the goroutine takes a slot of sem, builds fqdn and ttl and
\* enters upsertRecord for the A record
WorkerAcquire(w) ==
    /\ wpc[w] = "acquire"
    /\ CanAcquire(w[1], cfg.ConcurrencyLimit)
    /\ sem' = [sem EXCEPT ![w[1]] = @ + 1]
    /\ wpc' = [wpc EXCEPT ![w] = "A"]
    /\ UpsertStart(w, WorkerArgs(w, "A", ipv4))
    /\ UNCHANGED <<records, hist, cfg, ipv6Enabled, mainpc, ipv4, ipv6, zpc, baseDomain,
                   parsed, zoneErr, logged>>

\* part_000:82-84, 87-89: the upsertRecord call of goroutine w has returned; an
\* error is reported with slog.Error and nothing else is done about it.  The
\* entry keeps what upsertRecord itself logged (part_000:126, 137, 145).
Logged(w) ==
    Append(logged[w], [type |-> up[w].args.recordType, failed |-> up[w].ret # NoErr,
                       outcome |-> up[w].outcome])

\* a goroutine that gives its slot back only when its last upsert succeeded
WorkerExit_LeakOnFailure(w) ==
    /\ sem' = [sem EXCEPT ![w[1]] = IF up[w].ret = NoErr THEN @ - 1 ELSE @]
    /\ wpc' = [wpc EXCEPT ![w] = "done"]
    /\ up' = [up EXCEPT ![w] = NoCall]

\* a goroutine that ends without giving its slot back
WorkerExit_NoRelease(w) ==
    /\ UNCHANGED sem
    /\ wpc' = [wpc EXCEPT ![w] = "done"]
    /\ up' = [up EXCEPT ![w] = NoCall]

\* part_000:69, 66 (deferred): the slot is given back, then wg.Done(); the
\* goroutine and its locals are gone
WorkerExit(w) ==
    /\ sem' = [sem EXCEPT ![w[1]] = @ - 1]
    /\ wpc' = [wpc EXCEPT ![w] = "done"]
    /\ up' = [up EXCEPT ![w] = NoCall]

\* a goroutine that gives up after a failed A upsert
WorkerAfterA_StopOnError(w) ==
    /\ wpc[w] = "A"
    /\ up[w].pc = "done"
    /\ logged' = [logged EXCEPT ![w] = Logged(w)]
    /\ IF ipv6 # "" /\ up[w].ret = NoErr
       THEN /\ UpsertStart(w, WorkerArgs(w, "AAAA", ipv6))
            /\ wpc' = [wpc EXCEPT ![w] = "AAAA"]
            /\ UNCHANGED sem
       ELSE WorkerExit(w)
    /\ UNCHANGED <<records, hist, cfg, ipv6Enabled, mainpc, ipv4, ipv6, zpc, baseDomain,
                   parsed, zoneErr>>

\* part_000:82-90: the A upsert has returned (its error is logged); with an
\* ipv6 address the AAAA upsert is entered, without one the goroutine ends
WorkerAfterA(w) ==
    /\ wpc[w] = "A"
    /\ up[w].pc = "done"
    /\ logged' = [logged EXCEPT ![w] = Logged(w)]
    /\ IF ipv6 # ""
       THEN /\ UpsertStart(w, WorkerArgs(w, "AAAA", ipv6))
            /\ wpc' = [wpc EXCEPT ![w] = "AAAA"]
            /\ UNCHANGED sem
       ELSE WorkerExit(w)
    /\ UNCHANGED <<records, hist, cfg, ipv6Enabled, mainpc, ipv4, ipv6, zpc, baseDomain,
                   parsed, zoneErr>>

\* part_000:87-91: the AAAA upsert has returned and the goroutine ends
WorkerAfterAAAA(w) ==
    /\ wpc[w] = "AAAA"
    /\ up[w].pc = "done"
    /\ logged' = [logged EXCEPT ![w] = Logged(w)]
    /\ WorkerExit(w)
    /\ UNCHANGED <<records, hist, cfg, ipv6Enabled, mainpc, ipv4, ipv6, zpc, baseDomain,
                   parsed, zoneErr>>

\* a processZone that gives up on the first failed upsert
ZoneReturn_FailFast(z) ==
    /\ zpc[z] = "wait"
    /\ \/ \A w \in WorkersOfZone(z) : wpc[w] = "done"
       \/ \E w \in WorkersOfZone(z) : \E i \in 1..Len(logged[w]) : logged[w][i].failed
    /\ zpc' = [zpc EXCEPT ![z] = "returned"]
    /\ UNCHANGED <<cfg, ipv6Enabled, mainpc, ipv4, ipv6, baseDomain, sem, wpc, parsed,
                   zoneErr, logged>>

\* part_000:94-95: wg.Wait() returns and processZone returns nil
ZoneReturn(z) ==
    /\ zpc[z] = "wait"
    /\ \A w \in WorkersOfZone(z) : wpc[w] = "done"
    /\ zpc' = [zpc EXCEPT ![z] = "returned"]
    /\ UNCHANGED <<cfg, ipv6Enabled, mainpc, ipv4, ipv6, baseDomain, sem, wpc, parsed,
                   zoneErr, logged>>

RunNext ==
    \/ MainValidate /\ UNCHANGED <<retryVars, upsertVars>>
    \/ MainGetIPv4 /\ UNCHANGED <<retryVars, upsertVars>>
    \/ MainGetIPv6 /\ UNCHANGED <<retryVars, upsertVars>>
    \/ MainSpawn /\ UNCHANGED <<retryVars, upsertVars>>
    \/ MainCompleted /\ UNCHANGED <<retryVars, upsertVars>>
    \/ \E z \in DOMAIN zpc : \E resp \in ZoneResponses(BaseDomainOf(cfg.Zones[z].ZoneID)) :
          ZoneLookupReturn(z, resp) /\ UNCHANGED <<retryVars, upsertVars>>
    \/ \E z \in DOMAIN zpc : ZoneReturn(z) /\ UNCHANGED <<retryVars, upsertVars>>
    \/ \E w \in DOMAIN wpc : WorkerAcquire(w) /\ UNCHANGED retryVars
    \/ \E w \in DOMAIN wpc : WorkerAfterA(w) /\ UNCHANGED retryVars
    \/ \E w \in DOMAIN wpc : WorkerAfterAAAA(w) /\ UNCHANGED retryVars
    \/ \E w \in DOMAIN wpc : \E resp \in RunResponses(ListedFor(w)) :
          ListReturn(w, resp) /\ UNCHANGED <<retryVars, runVars, hist>>
    \/ \E w \in DOMAIN wpc : \E resp \in RunResponses(<<>>) :
          CreateReturn(w, resp, TRUE) /\ UNCHANGED <<retryVars, runVars, hist>>
    \/ \E w \in DOMAIN wpc : \E resp \in RunResponses(<<>>) :
          UpdateReturn(w, resp, TRUE) /\ UNCHANGED <<retryVars, runVars, hist>>

Spec == RunInit /\ [][RunNext]_vars

\* The run under fair scheduling: the Go runtime runs every goroutine that can
\* take a step, and every request gets its response (or its transport error),
\* so a step of the run that is possible is eventually taken.
\* the gates of the fair run: concurrency_limit 0, which main.go:38-40 replaces
\* by the default, and a gate of a single slot
FairLimits == {0, 1}

\* It is explored for the configurations with distinct zones and distinct
\* names, with every number of zones and subdomains.
FairConfigs ==
    { ConfigOf(nz, n, FALSE, FALSE, limit) :
        nz \in 1..MaxZones, n \in 1..MaxWorkers, limit \in FairLimits } \cap RunConfigs

FairInit ==
    /\ RunInit
    /\ cfg \in FairConfigs

SpecFair == FairInit /\ [][RunNext]_vars /\ WF_vars(RunNext)

(***************************************************************************)
(* Claims about retry.WithBackoff, checked under SpecRetry.                *)
(***************************************************************************)
\* every invocation of fn so far failed with a retryable error
AllRetryableFailures ==
    \A i \in 1..calls : fnLog[i] # NoErr /\ isRetryableError(fnLog[i])

\* C4: with MaxRetries >= 0 and no cancellation, while fn fails with a retryable
\* error on every call, WithBackoff does not return before fn has been invoked
\* MaxRetries+1 times, never invokes it more often, and then returns the
\* "max retries exceeded" error wrapping the error of the last invocation.
C4_RetryCount ==
    (config.MaxRetries >= 0 /\ ~cancelled /\ AllRetryableFailures) =>
        /\ calls <= config.MaxRetries + 1
        /\ rpc = "done" =>
              /\ calls = config.MaxRetries + 1
              /\ result = Returned("exhausted", Operation, fnLog[calls])
              /\ fnLog[calls].call = calls
        /\ (calls = config.MaxRetries + 1 /\ rpc # "failed") => rpc = "done"

C4_Witness ==
    /\ config.MaxRetries = 2
    /\ ~cancelled
    /\ AllRetryableFailures
    /\ calls = 3
    /\ rpc = "done"
    /\ result.kind = "exhausted"

\* C5: once cancellation has been signalled right after attempt i failed or
\* during the wait that follows it, fn is not invoked for attempt i+1 and
\* WithBackoff returns a Cancelled error.
C5_CancelShortCircuit ==
    [][(cancelled' /\ rpc \in {"failed", "select", "parked"}) =>
          /\ rpc' # "call"
          /\ fnLog' = fnLog
          /\ rpc' = "done" => result'.kind = "cancelled"]_vars

\* C6: a non-retryable error of fn is the last invocation of fn; WithBackoff
\* returns next, and (the context not being cancelled) what it returns wraps
\* that error and names the operation.
C6_NonRetryable ==
    \A i \in 1..calls :
        (fnLog[i] # NoErr /\ ~isRetryableError(fnLog[i])) =>
            /\ i = calls
            /\ rpc \in {"failed", "done"}
            /\ (rpc = "done" /\ ~cancelled) =>
                  result = Returned("nonretryable", Operation, fnLog[i])

C6_Witness ==
    /\ calls = 1
    /\ fnLog[1] # NoErr
    /\ ~isRetryableError(fnLog[1])
    /\ ~cancelled
    /\ rpc = "done"
    /\ result.kind = "nonretryable"
    /\ result.op = Operation

(***************************************************************************)
(* Claims about upsertRecord, checked under SpecUpsert.                    *)
(***************************************************************************)
\* the upsertRecord calls of caller c, finished or not, in order
CallsOf(c) == IF up[c].pc = "idle" THEN hist[c] ELSE Append(hist[c], up[c])

\* how many requests of call u use the method
Count(u, method) == Cardinality({i \in 1..Len(u.reqs) : u.reqs[i].method = method})

\* the list query of call u succeeded (2xx, decodable, success=true)
ListOk(u) == Len(u.reqs) >= 1 /\ u.reqs[1].resp = "ok"

\* the up-to-date rule as the specification words it, for remote r and desired d
SpecUpToDate(r, d) ==
    r.content = d.ip /\ r.proxied = d.proxied /\ (r.ttl = d.ttl \/ (d.proxied /\ r.ttl = 1))

\* C1: with a non-empty list result whose first record is r, upsertRecord issues
\* no create and no update and returns success exactly when r is up to date by
\* the specification's rule; in every other case it issues exactly one update
\* (and no create).
C1_UpToDateRule ==
    \A i \in 1..Len(CallsOf(Tester)) :
        LET u == CallsOf(Tester)[i] IN
        (ListOk(u) /\ Len(u.listed) > 0) =>
            IF SpecUpToDate(u.listed[1], u.args)
            THEN Count(u, "POST") = 0 /\ Count(u, "PUT") = 0 /\ u.pc = "done" /\ u.ret = NoErr
            ELSE Count(u, "POST") = 0 /\ Count(u, "PUT") = 1

\* the proxied scenario: remote ttl 1, desired ttl 300, nothing written
C1_Witness ==
    /\ up[Tester].pc = "done"
    /\ Len(up[Tester].listed) > 0
    /\ up[Tester].args.proxied
    /\ up[Tester].args.ttl = 300
    /\ up[Tester].listed[1].ttl = 1
    /\ up[Tester].outcome = "NoOp"
    /\ Len(up[Tester].reqs) = 1

\* the first call of the tester did what it reports: it returned success and the
\* provider carried out the write it issued, if any
FirstCallTookEffect ==
    /\ Len(hist[Tester]) = 1
    /\ hist[Tester][1].ret = NoErr
    /\ \A j \in 1..Len(hist[Tester][1].reqs) : hist[Tester][1].reqs[j].resp = "ok"

CreateFailed(u) ==
    \E j \in 1..Len(u.reqs) :
        u.reqs[j].method = "POST" /\ u.reqs[j].resp \in {"transport", "status"}

C9_FirstOnly ==
    \A i \in 1..Len(CallsOf(Tester)) :
        LET u == CallsOf(Tester)[i] IN
        /\ \A j \in 1..Len(u.reqs) : u.reqs[j].method \in {"GET", "POST", "PUT"}
        /\ (ListOk(u) /\ Len(u.listed) > 1 /\ ~SpecUpToDate(u.listed[1], u.args)) =>
              /\ Count(u, "PUT") = 1
              /\ Count(u, "POST") = 0
              /\ \A j \in 1..Len(u.reqs) :
                    /\ u.reqs[j].method = "PUT" => u.reqs[j].id = u.listed[1].id
                    /\ u.reqs[j].id \in {NoId, u.listed[1].id}

\* two records found, the second one up to date already, the first updated
C9_Witness ==
    /\ up[Tester].pc = "done"
    /\ Len(up[Tester].listed) = 2
    /\ SpecUpToDate(up[Tester].listed[2], up[Tester].args)
    /\ up[Tester].outcome = "Updated"
    /\ up[Tester].reqs[2].id = up[Tester].listed[1].id
    /\ up[Tester].listed[1].id # up[Tester].listed[2].id

\* C10: when the list returns no record, exactly one create is issued, carrying
\* the desired type, name, content, proxied and ttl, no update is issued, and
\* upsertRecord returns success (Created) once the create has succeeded.
C10_Create ==
    \A i \in 1..Len(CallsOf(Tester)) :
        LET u == CallsOf(Tester)[i] IN
        (ListOk(u) /\ u.listed = <<>>) =>
            /\ Count(u, "POST") = 1
            /\ Count(u, "PUT") = 0
            /\ u.reqs[2].method = "POST"
            /\ u.reqs[2].body.type = u.args.recordType
            /\ u.reqs[2].body.name = u.args.fqdn
            /\ u.reqs[2].body.content = u.args.ip
            /\ u.reqs[2].body.proxied = u.args.proxied
            /\ u.reqs[2].body.ttl = u.args.ttl
            /\ u.reqs[2].resp = "ok" =>
                  u.pc = "done" /\ u.ret = NoErr /\ u.outcome = "Created"

C10_Witness ==
    /\ up[Tester].pc = "done"
    /\ ListOk(up[Tester])
    /\ up[Tester].listed = <<>>
    /\ up[Tester].outcome = "Created"
    /\ up[Tester].args.ttl = 120
    /\ \E r \in records : r.name = TestName /\ r.content = up[Tester].args.ip

(***************************************************************************)
(* Claims about processZone and main, checked under Spec.                  *)
(***************************************************************************)
\* the subdomain goroutines of zone z that hold a slot of sem: they have
\* started their upsert work and not yet finished
Holders(z) == { w \in WorkersOfZone(z) : wpc[w] \in {"A", "AAAA"} }

\* C2: within a processZone call, the subdomain goroutines that have started
\* their upsert work and not finished are never more than concurrencyLimit.
C2_GateBound ==
    \A z \in DOMAIN zpc :
        zpc[z] = "wait" => Cardinality(Holders(z)) <= cfg.ConcurrencyLimit

\* the gate is full and a further goroutine of the zone is kept waiting
C2_Witness ==
    \E z \in DOMAIN zpc :
        /\ zpc[z] = "wait"
        /\ Cardinality(Holders(z)) = cfg.ConcurrencyLimit
        /\ \E w \in WorkersOfZone(z) : wpc[w] = "acquire"

\* goroutine w has a create or update request in flight
Writing(w) == up[w].pc \in {"create", "update"}

\* C3: during a whole run no two goroutines have a create or update request in
\* flight for the same fqdn and record type at the same time.
C3_OneWriterPerRecord ==
    \A w1, w2 \in DOMAIN wpc :
        (w1 # w2 /\ Writing(w1) /\ Writing(w2)) =>
            ~(up[w1].args.fqdn = up[w2].args.fqdn
                /\ up[w1].args.recordType = up[w2].args.recordType)

(***************************************************************************)
(* Claims about the responses upsertRecord receives, under SpecUpsert.     *)
(***************************************************************************)
\* C11: a 2xx response with success=false to the list, create or update request
\* of an upsertRecord call is the last request of the call (nothing is sent
\* again), and the call returns a failure: it reports neither Created nor
\* Updated.
C11_ApiFailureSurfaced ==
    \A i \in 1..Len(CallsOf(Tester)) :
        LET u == CallsOf(Tester)[i] IN
        \A j \in 1..Len(u.reqs) :
            u.reqs[j].resp = "apifail" =>
                /\ Len(u.reqs) = j
                /\ u.pc = "done"
                /\ u.ret # NoErr
                /\ u.outcome = "Failed"

(***************************************************************************)
(* Claims about failures in a run, checked under Spec.                     *)
(***************************************************************************)
\* goroutine w has finished having run every upsertRecord call it is to run:
\* the A record's, then the AAAA record's when main has an ipv6 address
RanToCompletion(w) ==
    /\ wpc[w] = "done"
    /\ Len(logged[w]) = IF ipv6 # "" THEN 2 ELSE 1
    /\ logged[w][1].type = "A"
    /\ ipv6 # "" => logged[w][2].type = "AAAA"

\* the base domain of the zone of goroutine z has been resolved
Resolved(z) == zpc[z] \in {"wait", "returned"}

\* C12: once the base domain of a zone is resolved none of its subdomain
\* goroutines is skipped, processZone does not return before every one of them
\* has run its upserts to the end, whatever failed, and it returns nil.
C12_FailureIsolated ==
    \A z \in DOMAIN zpc :
        /\ Resolved(z) =>
              /\ zoneErr[z] = NoErr
              /\ \A w \in WorkersOfZone(z) : wpc[w] \in {"acquire", "A", "AAAA", "done"}
        /\ zpc[z] = "returned" => \A w \in WorkersOfZone(z) : RanToCompletion(w)

\* a zone that returned nil with a goroutine whose A upsert failed and a sibling
\* whose A upsert succeeded after it
C12_Witness ==
    \E z \in DOMAIN zpc :
        /\ zpc[z] = "returned"
        /\ zoneErr[z] = NoErr
        /\ \E w1, w2 \in WorkersOfZone(z) :
              /\ w1 # w2
              /\ logged[w1][1].failed
              /\ ~logged[w2][1].failed
              /\ \E r \in records : r.type = "A" /\ r.name = Fqdn(cfg.Zones[z].Subdomains[w2[2]], baseDomain[z])

\* C13: when the zone lookup fails processZone returns the error at once and no
\* request is issued for a subdomain of that zone: a subdomain goroutine exists
\* only when the lookup gave the zone's name.
C13_ZoneLookupFatal ==
    \A z \in DOMAIN zpc :
        /\ zoneErr[z] # NoErr =>
              /\ zpc[z] = "failed"
              /\ zoneErr[z].stage \in {"get zone", "unmarshal zone response", "zone API error"}
        /\ zpc[z] \in {"getzone", "failed"} =>
              \A w \in WorkersOfZone(z) :
                  wpc[w] = "notstarted" /\ up[w] = NoCall /\ logged[w] = <<>>
        /\ (\E w \in WorkersOfZone(z) : wpc[w] # "notstarted" \/ up[w] # NoCall) =>
              /\ zoneErr[z] = NoErr
              /\ baseDomain[z] = BaseDomainOf(cfg.Zones[z].ZoneID)

\* the only zone answered success=false: the run is over and nothing was sent
C13_Witness ==
    /\ mainpc = "completed"
    /\ Len(cfg.Zones) = 1
    /\ zpc[1] = "failed"
    /\ zoneErr[1].stage = "zone API error"
    /\ records = {}
    /\ \A w \in DOMAIN wpc : wpc[w] = "notstarted"

\* C14: every zone goroutine is started together; the failure of a zone lookup
\* ends no other zone and is not fatal: the run reports completion, and when it
\* does every other zone has run all its subdomain goroutines to the end.
C14_ZonesIndependent ==
    /\ mainpc \in {"wait", "completed"} => \A z \in DOMAIN zpc : zpc[z] # "notstarted"
    /\ mainpc = "exit1" => \A z \in DOMAIN zpc : zpc[z] = "notstarted"
    /\ mainpc = "completed" =>
          \A z \in DOMAIN zpc :
              \/ zpc[z] = "failed" /\ zoneErr[z] # NoErr
              \/ /\ zpc[z] = "returned"
                 /\ \A w \in WorkersOfZone(z) : RanToCompletion(w)

\* two zones, the first failed, the second created its record; completed
C14_Witness ==
    /\ mainpc = "completed"
    /\ Len(cfg.Zones) = 2
    /\ zpc[1] = "failed"
    /\ zpc[2] = "returned"
    /\ ~logged[<<2, 1>>][1].failed
    /\ \E r \in records : r.id[1] = "A" /\ r.content = ipv4

\* the ttl chain as the specification words it
SpecEffectiveTTL(subTTL, zoneTTL, defaultTTL) ==
    IF subTTL # 0 THEN subTTL
    ELSE IF zoneTTL # 0 THEN zoneTTL
    ELSE IF defaultTTL # 0 THEN defaultTTL
    ELSE 300

\* the subdomain of goroutine w as configured
SubOf(w) == parsed.Zones[w[1]].Subdomains[w[2]]

\* the create and update requests goroutine w has issued in its current call
WritesOf(w) == { j \in 1..Len(up[w].reqs) : up[w].reqs[j].method \in {"POST", "PUT"} }

\* C15: the ttl of every create and update request of a subdomain is the
\* subdomain's ttl if nonzero, else the zone's if nonzero, else default_ttl if
\* nonzero, else 300; it is never 0.
C15_TTLChain ==
    \A w \in DOMAIN wpc :
        \A j \in WritesOf(w) :
            /\ up[w].reqs[j].body.ttl =
                  SpecEffectiveTTL(SubOf(w).TTL, parsed.Zones[w[1]].TTL, parsed.DefaultTTL)
            /\ up[w].reqs[j].body.ttl # 0

\* a create carrying the zone's ttl, the subdomain having none, and the
\* default_ttl being set too
C15_Witness ==
    \E w \in DOMAIN wpc :
        /\ SubOf(w).TTL = 0
        /\ parsed.Zones[w[1]].TTL = 600
        /\ parsed.DefaultTTL = 3600
        /\ up[w].pc = "create"
        /\ up[w].reqs[2].body.ttl = 600

\* the fqdn as the specification words it: trim(lower(n)), then the apex rule
SpecFqdn(n, b) ==
    LET t == TrimSpace(ToLower(n))
    IN  IF t = <<>> \/ t = <<"@">> THEN b ELSE t \o <<".">> \o b

\* C16: every list, create and update request of a subdomain names the fqdn the
\* specification gives for the subdomain's name and the resolved base domain.
C16_Fqdn ==
    \A w \in DOMAIN wpc :
        \A j \in 1..Len(up[w].reqs) :
            LET q == up[w].reqs[j]
                want == SpecFqdn(SubOf(w).Name, baseDomain[w[1]])
            IN  /\ q.method = "GET" => q.name = want
                /\ q.method \in {"POST", "PUT"} => q.body.name = want

\* " @" is the apex: its list query and its create name the bare base domain
C16_Witness ==
    \E w \in DOMAIN wpc :
        /\ SubOf(w).Name = <<" ", "@">>
        /\ up[w].pc = "create"
        /\ up[w].reqs[2].body.name = <<"d1">>
        /\ up[w].reqs[1].name = <<"d1">>

\* IPv6 is enabled and its discovery has failed (IPv4's has succeeded)
IPv6Failed == ipv6Enabled /\ mainpc \in {"spawn", "wait", "completed"} /\ ipv6 = ""

\* C20: a failed IPv6 discovery does not end the run (a valid configuration
\* exits only when IPv4 discovery failed); no AAAA request is ever issued after
\* it, and when the run completes every zone was processed and every subdomain
\* goroutine of a resolved zone has run its A upsert, and that alone.
C20_IPv6FailureNotFatal ==
    /\ (mainpc = "exit1" /\ Validate(parsed)) => ipv4 = ""
    /\ IPv6Failed =>
          /\ \A w \in DOMAIN wpc :
                /\ up[w].args.recordType # "AAAA"
                /\ \A j \in 1..Len(up[w].reqs) :
                      up[w].reqs[j].type # "AAAA" /\ up[w].reqs[j].body.type # "AAAA"
                /\ \A i \in 1..Len(logged[w]) : logged[w][i].type # "AAAA"
          /\ \A r \in records : r.type # "AAAA"
          /\ mainpc = "completed" =>
                \A z \in DOMAIN zpc :
                    /\ zpc[z] \in {"returned", "failed"}
                    /\ zpc[z] = "returned" =>
                          \A w \in WorkersOfZone(z) :
                              wpc[w] = "done" /\ Len(logged[w]) = 1 /\ logged[w][1].type = "A"

\* IPv6 discovery failed, the run completed and an A record was created
C20_Witness ==
    /\ IPv6Failed
    /\ mainpc = "completed"
    /\ \E w \in DOMAIN wpc : wpc[w] = "done" /\ ~logged[w][1].failed
    /\ \E r \in records : r.type = "A" /\ r.content = "1.2.3.4"

(***************************************************************************)
(* Claims about the delay of WithBackoff, checked under SpecBackoff.       *)
(***************************************************************************)
\* initial_wait * 2^(k-1) for the attempt whose delay was last computed
Exponential == config.InitialWait * Pow2(attempt - 1)

\* C17 as claimed: the delay before attempt k >= 1 is between 0.5 and 1.5 times
\* initial_wait*2^(k-1), and at most 1.5 times max_wait, for every policy.
C17_DelayBounds ==
    attempt >= 1 =>
        /\ Exponential <= 2 * backoff
        /\ 2 * backoff <= 3 * Exponential
        /\ 2 * backoff <= 3 * config.MaxWait

\* the arithmetic of the delay stays in the range of time.Duration:
\* initial_wait*2^(k-1) does, and so does 1.5 times the capped delay
InDurationRange ==
    /\ Exponential <= MaxDuration
    /\ 3 * Min(Exponential, config.MaxWait) <= 2 * MaxDuration

\* C17 as amended: with base the smaller of initial_wait*2^(k-1) and max_wait,
\* the delay before attempt k >= 1 is between 0.5 and 1.5 times base (so at most
\* 1.5 times initial_wait*2^(k-1) and at most 1.5 times max_wait), as long as
\* the arithmetic stays in the range of time.Duration.
C17_CappedDelayBounds ==
    (attempt >= 1 /\ InDurationRange) =>
        LET base == Min(Exponential, config.MaxWait) IN
        /\ base <= 2 * backoff
        /\ 2 * backoff <= 3 * base
        /\ 2 * backoff <= 3 * Exponential
        /\ 2 * backoff <= 3 * config.MaxWait

\* the cap applies and the jitter was subtracted: the delay is below half of
\* initial_wait*2^(k-1)
C17_Witness ==
    /\ attempt >= 2
    /\ InDurationRange
    /\ Exponential > config.MaxWait
    /\ backoff < config.MaxWait
    /\ 2 * backoff < Exponential
    /\ backoff > 0

\* C31: under a policy with non-negative initial_wait and max_wait the delay
\* computed before attempt k >= 1 is never negative, for large k as well, where
\* initial_wait*2^(k-1) leaves the range of time.Duration.
C31_NonNegativeDelay ==
    (attempt >= 1 /\ config.InitialWait >= 0 /\ config.MaxWait >= 0) => backoff >= 0

(***************************************************************************)
(* Claims about isRetryableError, checked under SpecClassify.              *)
(***************************************************************************)
\* the message m contains the phrases p, somewhere
SpecContains(m, p) ==
    \E i \in 1..Len(m) : \E j \in i..Len(m) : SubSeq(m, i, j) = p

\* the retryable messages the specification lists
SpecPatterns ==
    { <<"connection refused">>, <<"connection reset">>, <<"no such host">>,
      <<"timeout">>, <<"temporary failure">> }

SucceededAtLast ==
    /\ calls >= 1
    /\ fnLog[calls] = NoErr
    /\ \A i \in 1..(calls - 1) : fnLog[i] # NoErr /\ isRetryableError(fnLog[i])

\* C19: without cancellation, when fn fails with a retryable error on its first
\* j calls and succeeds on call j+1, WithBackoff has returned nil after exactly
\* j+1 calls of fn (j <= MaxRetries); the first call is made without a wait,
\* and every later call only once the wait before it has elapsed.
C19_EventualSuccess ==
    /\ (~cancelled /\ SucceededAtLast) =>
          /\ rpc = "done"
          /\ result = Returned("ok", Operation, NoErr)
          /\ calls <= config.MaxRetries + 1
          /\ attempt = calls - 1
    /\ calls = 0 => rpc \in {"call", "done"} /\ attempt = 0
    /\ rpc \in {"select", "parked"} => attempt >= 1 /\ calls = attempt
    /\ (rpc = "call" /\ attempt >= 1) => timerFired /\ calls = attempt

\* success on the third call, after two waits
C19_Witness ==
    /\ ~cancelled
    /\ SucceededAtLast
    /\ calls = 3
    /\ config.MaxRetries = 2
    /\ rpc = "done"
    /\ result.kind = "ok"
    /\ timerFired
    /\ backoff > 0

(***************************************************************************)
(* ip.GetWithRetry                                                         *)
(***************************************************************************)
\* v reads as an address of the family asked for (as the net package sorts
\* them: an address with a 4-byte form is IPv4)
SpecIsFamily(v, v6) ==
    \E t \in IPv4Texts \cup MappedTexts \cup IPv6Texts :
        /\ v = <<t>>
        /\ v6 <=> t \in IPv6Texts

\* the i-th invocation of fn fetched a value that is not such an address
ValidationFailure(i) ==
    /\ TrimSpace(fnLog[i].body) # <<>>
    /\ ~SpecIsFamily(TrimSpace(fnLog[i].body), isIPv6)

\* C21: GetWithRetry returns a non-empty address with a nil error only if the
\* value fetched is an address of the family asked for; a fetched value that is
\* malformed or of the other family is the last one fetched (a validation
\* failure is not retried) and GetWithRetry returns "" with an error.
C21_ValidatedSingleFetch ==
    /\ (ipRet.kind = "returned" /\ ipRet.err = NoErr) =>
          /\ ipRet.ip # <<>>
          /\ ipRet.ip = TrimSpace(fnLog[calls].body)
          /\ SpecIsFamily(ipRet.ip, isIPv6)
    /\ \A i \in 1..calls :
          ValidationFailure(i) =>
             /\ i = calls
             /\ rpc \in {"failed", "done"}
             /\ ipRet.kind = "returned" => (ipRet.ip = <<>> /\ ipRet.err # NoErr)

(***************************************************************************)
(* Validation of the configuration                                         *)
(***************************************************************************)
\* the configurations the specification calls valid
SpecValid(c) ==
    /\ Len(c.Zones) >= 1
    /\ \A i \in 1..Len(c.Zones) :
          /\ c.Zones[i].ZoneID # ""
          /\ Len(c.Zones[i].Subdomains) >= 1
          /\ \A j \in 1..Len(c.Zones[i].Subdomains) :
                \/ c.Zones[i].Subdomains[j].TTL = 0
                \/ c.Zones[i].Subdomains[j].TTL \in MinTTL..MaxTTL
    /\ c.ConcurrencyLimit >= 0

\* no request of the run has been issued: no discovery, no zone lookup, no upsert
NoRequestIssued ==
    /\ ipv4 = "" /\ ipv6 = ""
    /\ \A z \in DOMAIN zpc : zpc[z] = "notstarted"
    /\ \A w \in DOMAIN wpc : wpc[w] = "notstarted" /\ up[w] = NoCall /\ logged[w] = <<>>
    /\ records = {}

\* C22: Validate accepts a configuration (main goes on to the discovery) if
\* and only if it has a zone, every zone has a zone id and a subdomain, every
\* subdomain ttl is 0 or within [60, 86400] and concurrency_limit >= 0; for a
\* configuration it rejects the run ends and no request is ever issued.
C22_ValidateRule ==
    /\ [](~SpecValid(parsed) => NoRequestIssued)
    /\ [][mainpc = "start" /\ mainpc' # "start" =>
             /\ mainpc' = "ipv4" <=> SpecValid(parsed)
             /\ mainpc' = "exit1" <=> ~SpecValid(parsed)]_vars

C22_Witness ==
    /\ mainpc = "exit1"
    /\ Len(parsed.Zones) = 2
    /\ ~SpecValid(parsed)
    /\ NoRequestIssued

(***************************************************************************)
(* The order of the two upserts of a subdomain goroutine                   *)
(***************************************************************************)
\* the record type a request is about
TypeOf(req) == IF req.method = "GET" THEN req.type ELSE req.body.type

\* the requests goroutine w has issued in the upsertRecord call it is in
RequestTypes(w) == { TypeOf(up[w].reqs[i]) : i \in 1..Len(up[w].reqs) }

\* C23: within a subdomain goroutine no AAAA request is issued before the A
\* upsert has returned, with or without an error; the AAAA upsert is entered if
\* and only if the ipv6 address is not empty, also after a failed A upsert.
C23_AThenAAAA ==
    \A w \in DOMAIN wpc :
       /\ wpc[w] \in {"notstarted", "acquire"} => (up[w].reqs = <<>> /\ logged[w] = <<>>)
       /\ wpc[w] = "A" => (logged[w] = <<>> /\ RequestTypes(w) = {"A"})
       /\ wpc[w] = "AAAA" =>
             /\ ipv6 # ""
             /\ Len(logged[w]) = 1 /\ logged[w][1].type = "A"
             /\ RequestTypes(w) = {"AAAA"}
       /\ wpc[w] = "done" =>
             /\ Len(logged[w]) = (IF ipv6 # "" THEN 2 ELSE 1)
             /\ logged[w][1].type = "A"
             /\ ipv6 # "" => logged[w][2].type = "AAAA"

C23_Witness ==
    \E w \in DOMAIN wpc :
       /\ wpc[w] = "AAAA"
       /\ Len(logged[w]) = 1 /\ logged[w][1].type = "A" /\ logged[w][1].failed
       /\ Len(up[w].reqs) = 2

(***************************************************************************)
(* Completion barriers                                                     *)
(***************************************************************************)
\* goroutine w has a request in flight, or will issue one
Pending(w) == wpc[w] \in {"acquire", "A", "AAAA"} \/ up[w] # NoCall

\* C24: processZone returns only after every one of its subdomain goroutines
\* has finished; "completed" is reported only after every zone goroutine has
\* returned; once it is reported nothing of the run is in flight and no step
\* of the run (hence no request) follows.
C24_Barriers ==
    /\ [](\A z \in DOMAIN zpc :
             zpc[z] = "returned" => \A w \in WorkersOfZone(z) : wpc[w] = "done" /\ ~Pending(w))
    /\ [](mainpc = "completed" =>
             /\ \A z \in DOMAIN zpc : zpc[z] \in {"returned", "failed"}
             /\ \A w \in DOMAIN wpc : ~Pending(w))
    /\ [][mainpc = "completed" => UNCHANGED vars]_vars

C24_Witness ==
    /\ mainpc = "completed"
    /\ \E z \in DOMAIN zpc :
          /\ zpc[z] = "returned"
          /\ Cardinality(WorkersOfZone(z)) = 2
          /\ \A w \in WorkersOfZone(z) : Len(logged[w]) = 2
    /\ records # {}

(***************************************************************************)
(* Cancellation of retry.WithBackoff                                       *)
(***************************************************************************)
\* C25: once the context is cancelled fn is not invoked again, the first
\* attempt of a call entered with a cancelled context included, and a wait in
\* progress ends with WithBackoff returning a Cancelled error.
C25_NoAttemptAfterCancel ==
    [][cancelled =>
          /\ Len(fnLog') = Len(fnLog)
          /\ (rpc \in {"select", "parked"} /\ rpc' # rpc) =>
                (rpc' = "done" /\ result'.kind = "cancelled")]_vars

\* C26: when fn has failed and the context is cancelled, WithBackoff returns
\* a Cancelled error wrapping the context's cause, whatever the error of fn
\* (non-retryable or not) and whatever the attempt (the last allowed one or
\* not); and it returns a Cancelled error only if the context is cancelled.
C26_CancelledWins ==
    /\ [](result.kind = "cancelled" => (cancelled /\ result.wraps = CtxCanceled))
    /\ [][(rpc = "failed" /\ cancelled) =>
             (rpc' = "done" /\ result' = Returned("cancelled", Operation, CtxCanceled))]_vars

C26_Witness ==
    /\ rpc = "done"
    /\ cancelled
    /\ result = Returned("cancelled", Operation, CtxCanceled)
    /\ attempt >= 1
    /\ attempt = config.MaxRetries
    /\ lastErr = fnLog[calls]
    /\ ~isRetryableError(lastErr)

(***************************************************************************)
(* Termination of the run, checked under SpecFair                          *)
(***************************************************************************)
\* every goroutine of the run has ended, those of each resolved zone having
\* taken a slot and run to their end
AllEnded ==
    /\ \A z \in DOMAIN zpc : zpc[z] \in {"returned", "failed"}
    /\ \A w \in DOMAIN wpc :
          IF zpc[w[1]] = "returned" THEN wpc[w] = "done" /\ logged[w] # <<>>
          ELSE wpc[w] = "notstarted"

\* C27: under a validated configuration (the goroutines are started only for
\* one) every subdomain goroutine waiting for a slot of the gate eventually
\* has one, every processZone call eventually returns and the run reports
\* completion, with more subdomains than slots as well.
C27_Terminates == (mainpc = "spawn") ~> (mainpc = "completed" /\ AllEnded)

\* a goroutine waits at a full gate
C27_Witness ==
    \E w \in DOMAIN wpc :
       /\ Validate(parsed)
       /\ wpc[w] = "acquire"
       /\ sem[w[1]] = cfg.ConcurrencyLimit
       /\ Cardinality(WorkersOfZone(w[1])) > cfg.ConcurrencyLimit

(***************************************************************************)
(* Gate accounting                                                         *)
(***************************************************************************)
\* goroutine w has issued a request in the upsertRecord call it is in
InCall(w) == up[w].reqs # <<>>

\* C28: the slots of a zone's gate that are held are as many as the zone's
\* goroutines between their acquire and their end: a goroutine holds one slot
\* from before its first request until it ends, whether its A and AAAA upserts
\* failed or not, and none is held when processZone returns.
C28_GateAccounting ==
    \A z \in DOMAIN zpc :
       /\ sem[z] = Cardinality({ w \in WorkersOfZone(z) : wpc[w] \in {"A", "AAAA"} })
       /\ \A w \in WorkersOfZone(z) : InCall(w) => wpc[w] \in {"A", "AAAA"}
       /\ zpc[z] \in {"returned", "failed"} => sem[z] = 0

\* a zone has returned with no slot held, a goroutine having failed both upserts
C28_Witness ==
    \E z \in DOMAIN zpc :
       /\ zpc[z] = "returned"
       /\ sem[z] = 0
       /\ \E w \in WorkersOfZone(z) :
             /\ Len(logged[w]) = 2
             /\ logged[w][1].failed /\ logged[w][2].failed

(***************************************************************************)
(* The list query before every write, checked under SpecUpsert             *)
(***************************************************************************)
\* the ways a list query fails: transport error, HTTP status >= 400, a body
\* that does not decode, success=false
ListFailures == {"transport", "status", "undecodable", "apifail"}

\* C29: a create or update request is the second request of its upsertRecord
\* call, after a list query for the same zone, type and name that succeeded;
\* a list query that fails is the only request of the call, which returns an
\* error.
C29_ListBeforeWrite ==
    \A i \in 1..Len(CallsOf(Tester)) :
        LET u == CallsOf(Tester)[i] IN
        /\ \A j \in 1..Len(u.reqs) :
              u.reqs[j].method \in {"POST", "PUT"} =>
                 /\ j = 2
                 /\ u.reqs[1].method = "GET"
                 /\ u.reqs[1].resp = "ok"
                 /\ u.reqs[1].zone = u.reqs[j].zone
                 /\ u.reqs[1].type = u.reqs[j].body.type
                 /\ u.reqs[1].name = u.reqs[j].body.name
        /\ (Len(u.reqs) >= 1 /\ u.reqs[1].resp \in ListFailures) =>
              /\ Len(u.reqs) = 1
              /\ u.pc = "done"
              /\ u.ret # NoErr

\* an update was sent after a successful list query; an earlier call failed on
\* a list query answered with success=false
C29_Witness ==
    /\ Len(CallsOf(Tester)) = 2
    /\ CallsOf(Tester)[1].reqs[1].resp = "apifail"
    /\ CallsOf(Tester)[1].ret # NoErr
    /\ Len(CallsOf(Tester)[2].reqs) = 2
    /\ CallsOf(Tester)[2].reqs[2].method = "PUT"

(***************************************************************************)
(* Convergence of a zone                                                   *)
(***************************************************************************)
\* the fqdn and the desired state of goroutine w as the specification gives them
FqdnOf(w) == SpecFqdn(SubOf(w).Name, baseDomain[w[1]])

DesiredOf(w, type) ==
    [ip |-> IF type = "A" THEN ipv4 ELSE ipv6,
     proxied |-> SubOf(w).Proxied,
     ttl |-> SpecEffectiveTTL(SubOf(w).TTL, parsed.Zones[w[1]].TTL, parsed.DefaultTTL)]

\* the address families with a supplied IP
Families == IF ipv6 # "" THEN {"A", "AAAA"} ELSE {"A"}

\* the subdomain names of zone z normalise to pairwise distinct fqdns
DistinctFqdns(z) ==
    \A w1, w2 \in WorkersOfZone(z) : w1 # w2 => FqdnOf(w1) # FqdnOf(w2)

\* every network call of the run so far has succeeded
AllCallsSucceeded ==
    /\ \A z \in DOMAIN zpc : zpc[z] # "failed"
    /\ \A w \in DOMAIN wpc :
          /\ up[w].ret = NoErr
          /\ \A i \in 1..Len(logged[w]) : ~logged[w][i].failed

\* the create and update requests the run has issued for fqdn f and a type:
\* <<w, i>> for the i-th call of goroutine w, <<w, 0>> for the call it is in
WriteEvents(f, type) ==
    { e \in (DOMAIN wpc) \X (0..2) :
        /\ FqdnOf(e[1]) = f
        /\ IF e[2] = 0
           THEN up[e[1]].args.recordType = type /\ WritesOf(e[1]) # {}
           ELSE /\ e[2] <= Len(logged[e[1]])
                /\ logged[e[1]][e[2]].type = type
                /\ logged[e[1]][e[2]].outcome \in {"Created", "Updated", "Failed"} }

\* C30: when processZone has returned for a zone whose names normalise to
\* distinct fqdns, every network call having succeeded (and nothing but the run
\* writing to the provider), the provider holds for every subdomain of the zone
\* and every family with an address a first record for (fqdn, type) that is up
\* to date with the desired content, proxied and ttl, and the run has issued at
\* most one create or update request for that (fqdn, type).
C30_Convergence ==
    \A z \in DOMAIN zpc :
       (zpc[z] = "returned" /\ DistinctFqdns(z) /\ AllCallsSucceeded) =>
          \A w \in WorkersOfZone(z) : \A type \in Families :
             LET listed == ProviderList(records, type, FqdnOf(w)) IN
             /\ Len(listed) >= 1
             /\ SpecUpToDate(listed[1], DesiredOf(w, type))
             /\ Cardinality(WriteEvents(FqdnOf(w), type)) <= 1
====
